---------------------------- MODULE Spec2Model ----------------------------
(***************************************************************************)
(* Subscription lifecycle of the web panel (src/app.js): the persisted     *)
(* Subscription list, the remote hosting control-plane, the in-memory      *)
(* order cache, the reconciler of GET /admin, the expiration sweeper, the  *)
(* deprovisioning workflow and the provisioning workflow.                  *)
(*                                                                         *)
(* Time is counted in units of 1/Day of a day.  The sweeper tick, the      *)
(* reconciler and the provisioning handlers are cut at their awaits: the   *)
(* code between two awaits is one atomic step.  One deprovisioning (all    *)
(* its remote calls) is one step.  A remote call or a store access may     *)
(* fail; the outcome is drawn with \E.                                     *)
(***************************************************************************)
EXTENDS Integers, Sequences, FiniteSets, TLC

(***************************************************************************)
(* Bounds of the model.                                                    *)
(***************************************************************************)
Day == 2          \* time units per day (the code: 1000 * 60 * 60 * 24 ms)
MaxTime == 3      \* the clock runs from 0 to MaxTime
MaxSubs == 2      \* Subscriptions of the initial persisted list
MaxOrders == 1    \* orders of the order cache
MaxProcs == 2     \* provisioning requests in flight at the same time
MaxQris == 1      \* create-qris requests repeated for an order of the cache
MaxAddDays == 2   \* days of one admin add-time request
MaxTotalDays == 3 \* admin add-time stops at this many cumulative days
MaxRenewals == 2  \* renewal orders paid one after the other for one Subscription
MaxDelDays == 2   \* days of one admin reduce-time request
MaxAdminSubs == 1 \* Subscriptions the administrator's requests name
MaxDays == 31     \* days of a purchase request

(***************************************************************************)
(* Program constants.                                                      *)
(***************************************************************************)
AUTO_DELETE_AFTER_DAYS == 7
defaultDays == 30

VARIABLES
    now,            \* Date.now()
    store,          \* persisted document without the _SETTINGS_ entry
    rServers,       \* control-plane: server id -> [owner, suspended, created_at]
    rUsers,         \* control-plane: registered hosting accounts
    nextSid,        \* control-plane: id of the next server created
    panelsStorage,  \* order cache, in insertion order: <<[key, ...], ...>>
    gateway,        \* payment gateway: order -> "pending" | "completed"
    sw,             \* the sweeper tick in flight (locals of the setInterval callback)
    swLog,          \* history: remote calls and writes of the tick in flight
    autoSuspended,  \* history: ids of the Subscriptions an earlier tick's suspend call suspended
    dp,             \* history: the deprovisioning of the last step, what it called and reported
    rc,             \* the GET /admin request in flight (locals of the handler)
    procs,          \* the provisioning requests in flight (locals of the handlers)
    made,           \* history: accounts and servers created remotely, per order
    suspendFailed,  \* history: ids of the Subscriptions whose suspend call failed in the last tick
    settings,       \* persisted document: the settings of the _SETTINGS_ entry
    settingsCache,  \* settingsCache: <<>> for null, <<settings>> otherwise
    qris            \* the POST /api/create-qris request in flight and its response

vars == <<now, store, rServers, rUsers, nextSid, panelsStorage, gateway, sw, swLog,
          autoSuspended, dp, rc, procs, made, suspendFailed, settings, settingsCache,
          qris>>

remoteVars == <<rServers, rUsers, nextSid>>
provVars == <<gateway, procs, made>>
shopVars == <<settings, settingsCache, qris>>

(***************************************************************************)
(* Helpers.                                                                *)
(***************************************************************************)
Users == {"u1", "u2", "root"}
RootAdmins == {"root"}
NoUser == "none"

Range(s) == {s[i] : i \in DOMAIN s}

\* Array.prototype.splice(i, 1)
Splice(s, i) == [j \in 1..(Len(s) - 1) |-> IF j < i THEN s[j] ELSE s[j + 1]]

\* Array.prototype.reverse
Reverse(s) == [j \in 1..Len(s) |-> s[Len(s) + 1 - j]]

\* list.findIndex(p => p.panel_data && p.panel_data.server_id == serverId);
\* positions are 1..Len(list), 0 stands for -1
IndexOfServer(list, serverId) ==
    IF \E j \in DOMAIN list : list[j].server_id = serverId
    THEN CHOOSE j \in DOMAIN list :
             /\ list[j].server_id = serverId
             /\ \A k \in 1..(j - 1) : list[k].server_id # serverId
    ELSE 0

\* Math.floor(a / b) and Math.ceil(a / b) for b > 0
FloorDiv(a, b) == a \div b
CeilDiv(a, b) == -((-a) \div b)

(***************************************************************************)
(* Settings: the _SETTINGS_ entry of the persisted document, the settings  *)
(* cache and saveServerDatabase.  Of the settings the price table is kept. *)
(* config.js is not part of src: config.PRICES is taken to hold the static *)
(* defaults the code falls back to.  The 60 seconds a cached value lives   *)
(* are far below a time unit: at any read the cache is fresh or it is not. *)
(***************************************************************************)
ConfigPrices ==
    [ PANEL_1GB |-> 3000, PANEL_2GB |-> 5000, PANEL_3GB |-> 7000, PANEL_4GB |-> 9000,
      PANEL_5GB |-> 11000, PANEL_6GB |-> 14000, PANEL_7GB |-> 18000,
      PANEL_PREMIUM |-> 30000 ]

\* the value loadSettings returns when it has nothing better
ConfigSettings == [PRICES |-> ConfigPrices]

\* settings an administrator has saved: two tiers have a price of their own
SavedSettings ==
    [PRICES |-> [ConfigPrices EXCEPT !.PANEL_1GB = 4000, !.PANEL_2GB = 8000]]

SettingsValues == {ConfigSettings, SavedSettings}

NoCache == <<>>

\* loadSettings(): the cached value while it is fresh; otherwise the settings
\* of the document fetched, which are cached; the static defaults, and no
\* caching, when the fetch fails.  value is what the caller gets, cache the
\* cache afterwards.
LoadSettings ==
    (IF settingsCache # NoCache
     THEN {[value |-> settingsCache[1], cache |-> settingsCache]}
     ELSE {})
    \cup {[value |-> settings, cache |-> <<settings>>]}
    \cup {[value |-> ConfigSettings, cache |-> settingsCache]}

\* saveServerDatabase(data): fullData = [...data, {id: '_SETTINGS_',
\* settings: currentSettings}]; the entry a write puts into the document
SaveSettingsEntry(currentSettings, writeOk) ==
    /\ settings' = IF writeOk THEN currentSettings.value ELSE settings
    /\ settingsCache' = currentSettings.cache

(***************************************************************************)
(* The price of a purchase.  JavaScript numbers are IEEE-754 doubles: a    *)
(* positive double is [m, e] with m its 53 mantissa bits, most significant *)
(* first and m[1] = 1, and value m * 2^e.  Division and multiplication     *)
(* round to the nearest double, ties to the even mantissa.                 *)
(***************************************************************************)
MantissaBits == 53

\* bit sequences are handled in groups of ChunkBits bits
ChunkBits == 9
Chunk == 512

DblZero == [m |-> <<>>, e |-> 0]

RECURSIVE Pow2(_)
Pow2(k) == IF k = 0 THEN 1 ELSE 2 * Pow2(k - 1)

\* the integer of at most 31 bits
RECURSIVE BitsToInt(_)
BitsToInt(bits) ==
    IF Len(bits) = 0 THEN 0
    ELSE IF Len(bits) = 1 THEN bits[1]
    ELSE LET h == Len(bits) \div 2
         IN  BitsToInt(SubSeq(bits, 1, h)) * Pow2(Len(bits) - h)
             + BitsToInt(SubSeq(bits, h + 1, Len(bits)))

\* the bits of the chunks cs, most significant first
FromChunks(cs) ==
    [i \in 1..(ChunkBits * Len(cs)) |->
        (cs[((i - 1) \div ChunkBits) + 1]
           \div Pow2(ChunkBits - 1 - ((i - 1) % ChunkBits))) % 2]

\* the chunks of bits, for Len(bits) a multiple of ChunkBits
ToChunks(bits) ==
    [c \in 1..(Len(bits) \div ChunkBits) |->
        BitsToInt(SubSeq(bits, ChunkBits * (c - 1) + 1, ChunkBits * c))]

\* bits without its leading zeros, for bits with a 1
StripZeros(bits) ==
    LET first == CHOOSE i \in 1..Len(bits) :
                    bits[i] = 1 /\ \A k \in 1..(i - 1) : bits[k] = 0
    IN  SubSeq(bits, first, Len(bits))

\* bits + 1; the sequence grows by one bit when every bit was 1
BitsInc(bits) ==
    IF \A i \in 1..Len(bits) : bits[i] = 1
    THEN <<1>> \o [i \in 1..Len(bits) |-> 0]
    ELSE LET last == CHOOSE i \in 1..Len(bits) :
                        bits[i] = 0 /\ \A k \in (i + 1)..Len(bits) : bits[k] = 1
         IN  [i \in 1..Len(bits) |->
                IF i < last THEN bits[i] ELSE IF i = last THEN 1 ELSE 0]

\* the double nearest to bits * 2^e, for bits with bits[1] = 1 and more of the
\* value below them iff sticky
RoundToDouble(bits, e, sticky) ==
    IF Len(bits) <= MantissaBits
    THEN [m |-> bits \o [i \in 1..(MantissaBits - Len(bits)) |-> 0],
          e |-> e - (MantissaBits - Len(bits))]
    ELSE LET kept == SubSeq(bits, 1, MantissaBits)
             below == \/ sticky
                      \/ \E i \in (MantissaBits + 2)..Len(bits) : bits[i] = 1
             up == /\ bits[MantissaBits + 1] = 1
                   /\ (below \/ kept[MantissaBits] = 1)
             dropped == Len(bits) - MantissaBits
             inc == BitsInc(kept)
         IN  IF ~up THEN [m |-> kept, e |-> e + dropped]
             ELSE IF Len(inc) = MantissaBits THEN [m |-> inc, e |-> e + dropped]
             ELSE [m |-> SubSeq(inc, 1, MantissaBits), e |-> e + dropped + 1]

\* the next n chunks of r / d for r < d, and the remainder after them
RECURSIVE DivChunks(_, _, _)
DivChunks(r, d, n) ==
    IF n = 0 THEN [chunks |-> <<>>, rem |-> r]
    ELSE LET rest == DivChunks((r * Chunk) % d, d, n - 1)
         IN  [chunks |-> <<(r * Chunk) \div d>> \o rest.chunks, rem |-> rest.rem]

\* the k with d * 2^k <= n < d * 2^(k+1), for n > 0 and d > 0
RECURSIVE Log2Quotient(_, _)
Log2Quotient(n, d) ==
    IF n < d THEN Log2Quotient(2 * n, d) - 1
    ELSE IF n >= 2 * d THEN Log2Quotient(n, 2 * d) + 1
    ELSE 0

\* n / d in doubles, for integers n >= 0 and d > 0: the leading 1 and six
\* chunks of quotient bits, rounded
DblDiv(n, d) ==
    IF n = 0 THEN DblZero
    ELSE LET k == Log2Quotient(n, d)
             num == IF k < 0 THEN n * Pow2(-k) ELSE n
             den == IF k < 0 THEN d ELSE d * Pow2(k)
             q == DivChunks(num - den, den, 6)
         IN  RoundToDouble(<<1>> \o FromChunks(q.chunks), k - 6 * ChunkBits,
                           q.rem # 0)

\* the chunks of cs * n + carry, least significant first, for csRev the
\* chunks least significant first
RECURSIVE MulChunksRev(_, _, _)
MulChunksRev(csRev, n, carry) ==
    IF csRev = <<>>
    THEN IF carry = 0 THEN <<>>
         ELSE <<carry % Chunk>> \o MulChunksRev(<<>>, n, carry \div Chunk)
    ELSE <<(Head(csRev) * n + carry) % Chunk>>
         \o MulChunksRev(Tail(csRev), n, (Head(csRev) * n + carry) \div Chunk)

\* x * n in doubles, for a double x >= 0 and an integer n >= 0
DblMul(x, n) ==
    IF x = DblZero \/ n = 0 THEN DblZero
    ELSE LET cs == ToChunks(<<0>> \o x.m)
             product == FromChunks(Reverse(MulChunksRev(Reverse(cs), n, 0)))
         IN  RoundToDouble(StripZeros(product), x.e, FALSE)

\* Math.ceil(x) for a double 0 <= x < 2^31
MathCeil(x) ==
    IF x = DblZero THEN 0
    ELSE IF x.e >= 0 THEN BitsToInt(x.m) * Pow2(x.e)
    ELSE IF -x.e >= MantissaBits THEN 1
    ELSE BitsToInt(SubSeq(x.m, 1, MantissaBits + x.e))
         + (IF \E i \in (MantissaBits + x.e + 1)..MantissaBits : x.m[i] = 1
            THEN 1 ELSE 0)

\* validatePrice: const pricePerDay = basePrice / 30
PricePerDay(basePrice) == DblDiv(basePrice, 30)

\* validatePrice: const calculatedPrice = Math.ceil(pricePerDay * days)
CalculatedPrice(basePrice, days) == MathCeil(DblMul(PricePerDay(basePrice), days))

\* Text is a sequence of characters.  The keys of the specs table of
\* createRealPterodactylPanel:
Panel1GB == <<"P", "a", "n", "e", "l", " ", "1", "G", "B", " ", "R", "A", "M">>
Panel2GB == <<"P", "a", "n", "e", "l", " ", "2", "G", "B", " ", "R", "A", "M">>
Panel3GB == <<"P", "a", "n", "e", "l", " ", "3", "G", "B", " ", "R", "A", "M">>
Panel4GB == <<"P", "a", "n", "e", "l", " ", "4", "G", "B", " ", "R", "A", "M">>
Panel5GB == <<"P", "a", "n", "e", "l", " ", "5", "G", "B", " ", "R", "A", "M">>
Panel6GB == <<"P", "a", "n", "e", "l", " ", "6", "G", "B", " ", "R", "A", "M">>
Panel7GB == <<"P", "a", "n", "e", "l", " ", "7", "G", "B", " ", "R", "A", "M">>
PanelUnlimited == <<"P", "a", "n", "e", "l", " ", "U", "N", "L", "I", "M", "I", "T", "E", "D">>

SpecKeys ==
    { Panel1GB, Panel2GB, Panel3GB, Panel4GB, Panel5GB, Panel6GB, Panel7GB,
      PanelUnlimited }

\* a product_name the request does not carry (undefined; '' is falsy too)
NoName == <<>>

\* the text of a product_id
ProductIdText(product_id) ==
    CASE product_id = "panel-1gb" -> <<"p", "a", "n", "e", "l", "-", "1", "g", "b">>
      [] product_id = "panel-2gb" -> <<"p", "a", "n", "e", "l", "-", "2", "g", "b">>
      [] product_id = "panel-3gb" -> <<"p", "a", "n", "e", "l", "-", "3", "g", "b">>
      [] product_id = "panel-4gb" -> <<"p", "a", "n", "e", "l", "-", "4", "g", "b">>
      [] product_id = "panel-5gb" -> <<"p", "a", "n", "e", "l", "-", "5", "g", "b">>
      [] product_id = "panel-6gb" -> <<"p", "a", "n", "e", "l", "-", "6", "g", "b">>
      [] product_id = "panel-7gb" -> <<"p", "a", "n", "e", "l", "-", "7", "g", "b">>
      [] product_id = "panel-premium" -> <<"p", "a", "n", "e", "l", "-", "p", "r", "e", "m", "i", "u", "m">>
      [] product_id = "panel-0gb" -> <<"p", "a", "n", "e", "l", "-", "0", "g", "b">>

\* String.prototype.includes
Includes(text, sub) ==
    \E i \in 1..(Len(text) - Len(sub) + 1) : SubSeq(text, i, i + Len(sub) - 1) = sub

\* create-qris: product_name: product_name || product_id
StoredProductName(product_name, product_id) ==
    IF product_name # NoName THEN product_name ELSE ProductIdText(product_id)

\* createRealPterodactylPanel: let specKey = product_name;
\* if (product_name.includes('1GB')) specKey = 'Panel 1GB RAM'; else if ...
SpecKey(product_name) ==
    IF Includes(product_name, <<"1", "G", "B">>) THEN Panel1GB
    ELSE IF Includes(product_name, <<"2", "G", "B">>) THEN Panel2GB
    ELSE IF Includes(product_name, <<"3", "G", "B">>) THEN Panel3GB
    ELSE IF Includes(product_name, <<"4", "G", "B">>) THEN Panel4GB
    ELSE IF Includes(product_name, <<"5", "G", "B">>) THEN Panel5GB
    ELSE IF Includes(product_name, <<"6", "G", "B">>) THEN Panel6GB
    ELSE IF Includes(product_name, <<"7", "G", "B">>) THEN Panel7GB
    ELSE IF \/ Includes(product_name, <<"U", "N", "L", "I", "M", "I", "T", "E", "D">>)
            \/ Includes(product_name, <<"U", "N", "L", "I">>) THEN PanelUnlimited
    ELSE product_name

\* const spec = specs[specKey] || specs['Panel 1GB RAM']; limits.memory is
\* parseInt(spec.ram)
SpecRam(specKey) ==
    CASE specKey = Panel1GB -> 1500
      [] specKey = Panel2GB -> 3500
      [] specKey = Panel3GB -> 4000
      [] specKey = Panel4GB -> 5000
      [] specKey = Panel5GB -> 6000
      [] specKey = Panel6GB -> 7000
      [] specKey = Panel7GB -> 8000
      [] specKey = PanelUnlimited -> 0
      [] OTHER -> 1500

\* renewPanel: the product_id of a server, from the ram of its specs
ProductIdOfRam(ram) ==
    CASE ram = 0 -> "panel-premium"
      [] ram = 1500 -> "panel-1gb"
      [] ram = 3500 -> "panel-2gb"
      [] ram = 4000 -> "panel-3gb"
      [] ram = 5000 -> "panel-4gb"
      [] ram = 6000 -> "panel-5gb"
      [] ram = 7000 -> "panel-6gb"
      [] ram = 8000 -> "panel-7gb"
      [] OTHER -> "panel-1gb"

\* no request for a payment code in flight
QrIdle ==
    [ pc |-> "idle", order_id |-> 0, product_id |-> "none", days |-> 0,
      amount |-> <<>>, basePrice |-> 0, calculatedPrice |-> 0,
      response |-> <<>> ]

\* the product_id values validatePrice knows, and one it does not know
ProductIds ==
    { "panel-1gb", "panel-2gb", "panel-3gb", "panel-4gb", "panel-5gb",
      "panel-6gb", "panel-7gb", "panel-premium" }

UnknownProductId == "panel-0gb"

\* JavaScript's a || b for numbers
OrElse(a, b) == IF a # 0 THEN a ELSE b

\* validatePrice: let basePrice = 0; if (product_id === 'panel-1gb') ...
BasePrice(priceMap, product_id) ==
    CASE product_id = "panel-1gb" -> OrElse(priceMap.PANEL_1GB, 3000)
      [] product_id = "panel-2gb" -> OrElse(priceMap.PANEL_2GB, 5000)
      [] product_id = "panel-3gb" -> OrElse(priceMap.PANEL_3GB, 7000)
      [] product_id = "panel-4gb" -> OrElse(priceMap.PANEL_4GB, 9000)
      [] product_id = "panel-5gb" -> OrElse(priceMap.PANEL_5GB, 11000)
      [] product_id = "panel-6gb" -> OrElse(priceMap.PANEL_6GB, 14000)
      [] product_id = "panel-7gb" -> OrElse(priceMap.PANEL_7GB, 18000)
      [] product_id = "panel-premium" -> OrElse(priceMap.PANEL_PREMIUM, 30000)
      [] OTHER -> 0

\* parseInt(req.body.days) || 30, for days an integer >= 0
ParseDays(days) == OrElse(days, 30)

\* The amount of a request is absent, <<>>, or a JSON number >= 0 given in
\* tenths, <<t>>.  It is truthy unless absent or 0, and parseInt drops the
\* fraction.
NoAmount == <<>>
Truthy(amount) == amount # NoAmount /\ amount[1] # 0
ParseInt(amount) == amount[1] \div 10

\* the requests made: days, and no amount, 0, the prices 3000, 4000 and 4001,
\* 3000.5 and 4999
RequestDays == {0, 1, 30, MaxDays}

RequestAmounts ==
    {NoAmount} \cup {<<t>> : t \in {0, 30000, 30005, 40000, 40010, 49990}}

\* the calculated prices of the requests made, each computed once
PriceTable ==
    [basePrice \in {BasePrice(s.PRICES, product_id) :
                       s \in SettingsValues,
                       product_id \in ProductIds \cup {UnknownProductId}},
     days \in {ParseDays(d) : d \in RequestDays} |->
        CalculatedPrice(basePrice, days)]

(***************************************************************************)
(* Deprovisioning.  o gives the transport outcome of each remote call and  *)
(* store access.  The result carries what was reported, the control-plane, *)
(* the order cache and the store afterwards, and what was called.          *)
(***************************************************************************)
ServersOf(S, user) == {s \in DOMAIN S : S[s].owner = user}

\* userServers.filter(s => s.attributes.id != serverId)
RemainingServers(S, user, serverId) == ServersOf(S, user) \ {serverId}

\* a cleanup that forgets the root_admin test
NoAdminGuard(rootAdmin, remaining) == remaining = {}

\* if (!userAttr.root_admin && remainingServers.length === 0)
ShouldDeleteOwner(rootAdmin, remaining) == ~rootAdmin /\ remaining = {}

\* the loop over Object.entries(panelsStorage): the first entry of that server goes
DropOrderOf(P, serverId) ==
    LET hit(j) == P[j].panel_data # <<>> /\ P[j].panel_data[1].server_id = serverId
    IN  IF \E j \in DOMAIN P : hit(j)
        THEN Splice(P, CHOOSE j \in DOMAIN P : hit(j) /\ \A k \in 1..(j - 1) : ~hit(k))
        ELSE P

DpNone ==
    [ by |-> "none", serverId |-> 0, reported |-> FALSE, infoOk |-> FALSE,
      ownerId |-> NoUser, delIssued |-> FALSE, remote |-> "n/a",
      userDelIssued |-> FALSE, userDeleted |-> FALSE, ownerRootAdmin |-> FALSE,
      ownerRemaining |-> {}, localRemoved |-> FALSE ]

\* deleteExpiredPanel(serverId, username)
DeleteExpiredPanel(S, U, P, serverId, o) ==
    LET \* axios.get servers/:id; a missing server answers 404 and throws
        infoOk == o.info /\ serverId \in DOMAIN S
        ownerId == IF infoOk THEN S[serverId].owner ELSE NoUser
        \* if (ownerId) { axios.delete servers/:id ... }
        delIssued == ownerId # NoUser
        delOk == delIssued /\ o.del /\ serverId \in DOMAIN S
        S1 == IF delOk THEN [s \in DOMAIN S \ {serverId} |-> S[s]] ELSE S
        \* axios.get users/:id?include=servers
        checkOk == delIssued /\ o.ucheck /\ ownerId \in U
        remaining == RemainingServers(S1, ownerId, serverId)
        wantUserDel == checkOk /\ ShouldDeleteOwner(ownerId \in RootAdmins, remaining)
        \* the control-plane refuses to delete an account that still owns servers
        userDelOk == wantUserDel /\ o.udel /\ ServersOf(S1, ownerId) = {}
    IN  [ result |-> TRUE,
          servers |-> S1,
          users |-> IF userDelOk THEN U \ {ownerId} ELSE U,
          panels |-> DropOrderOf(P, serverId),
          remote |-> IF delOk THEN "deleted"
                     ELSE IF serverId \notin DOMAIN S THEN "absent" ELSE "left",
          issued |-> [del |-> delIssued, ucheck |-> delIssued, udel |-> wantUserDel],
          dp |-> [ by |-> "sweeper", serverId |-> serverId, reported |-> TRUE,
                   infoOk |-> infoOk, ownerId |-> ownerId, delIssued |-> delIssued,
                   remote |-> IF delOk THEN "deleted"
                              ELSE IF serverId \notin DOMAIN S THEN "absent" ELSE "left",
                   userDelIssued |-> wantUserDel, userDeleted |-> userDelOk,
                   ownerRootAdmin |-> ownerId \in RootAdmins,
                   ownerRemaining |-> IF checkOk THEN remaining ELSE {},
                   localRemoved |-> TRUE ] ]

\* the outcomes of the calls of one deleteExpiredPanel
Outcomes == [info : BOOLEAN, del : BOOLEAN, ucheck : BOOLEAN, udel : BOOLEAN]

\* a call that is not issued has no outcome
OnlyIssued(o, issued) == \A c \in DOMAIN issued : o[c] => issued[c]

\* POST /admin/api/panels/delete/:serverId.  Each \E is the outcome of one call,
\* in the order of the handler; a call that is not issued has no outcome.
AdminDeletePanel(serverId) ==
    /\ \E info \in BOOLEAN :
         \* axios.get servers/:id; a missing server answers 404 and throws
         LET infoOk == info /\ serverId \in DOMAIN rServers
         IN  \E read \in IF infoOk THEN {FALSE} ELSE BOOLEAN :
         \* catch (e): the owner id of the local record, if it has one
         LET fallback == IF read THEN store ELSE <<>>
             localIdx == IndexOfServer(fallback, serverId)
             ownerId == IF infoOk THEN rServers[serverId].owner
                        ELSE IF localIdx # 0 THEN fallback[localIdx].owner_id
                        ELSE NoUser
         IN  \E del \in BOOLEAN :
         \* axios.delete servers/:id: 204, or 404 for a missing server
         LET delOk == del /\ serverId \in DOMAIN rServers
             apiSuccess == del
             S1 == IF delOk THEN [s \in DOMAIN rServers \ {serverId} |-> rServers[s]]
                   ELSE rServers
         \* if (ownerId && apiSuccess): axios.get users/:id?include=servers
         IN  \E ucheck \in IF ownerId # NoUser /\ apiSuccess THEN BOOLEAN ELSE {FALSE} :
         LET checkOk == ucheck /\ ownerId \in rUsers
             remaining == RemainingServers(S1, ownerId, serverId)
             wantUserDel == checkOk /\ ShouldDeleteOwner(ownerId \in RootAdmins, remaining)
         \* axios.delete users/:id; the control-plane refuses to delete an account
         \* that still owns servers
         IN  \E udel \in IF wantUserDel THEN BOOLEAN ELSE {FALSE} :
         LET userDelOk == udel /\ ServersOf(S1, ownerId) = {}
         \* const currentDb = await loadServerDatabase(); findIndex; splice; save
         IN  \E load \in BOOLEAN :
         LET currentDb == IF load THEN store ELSE <<>>
             serverIndex == IndexOfServer(currentDb, serverId)
         IN  \E write \in IF serverIndex # 0 THEN BOOLEAN ELSE {FALSE},
                currentSettings \in LoadSettings :
               /\ IF serverIndex # 0 THEN SaveSettingsEntry(currentSettings, write)
                  ELSE UNCHANGED <<settings, settingsCache>>
               /\ rServers' = S1
               /\ rUsers' = IF userDelOk THEN rUsers \ {ownerId} ELSE rUsers
               /\ store' = IF write THEN Splice(currentDb, serverIndex) ELSE store
               /\ panelsStorage' = DropOrderOf(panelsStorage, serverId)
               \* res.json({ success: true, ... })
               /\ dp' = [ by |-> "route", serverId |-> serverId, reported |-> TRUE,
                          infoOk |-> infoOk, ownerId |-> ownerId, delIssued |-> TRUE,
                          remote |-> IF delOk THEN "deleted"
                                     ELSE IF serverId \notin DOMAIN rServers THEN "absent"
                                     ELSE "left",
                          userDelIssued |-> wantUserDel, userDeleted |-> userDelOk,
                          ownerRootAdmin |-> ownerId \in RootAdmins,
                          ownerRemaining |-> IF checkOk THEN remaining ELSE {},
                          localRemoved |-> IndexOfServer(store', serverId) = 0 ]
    /\ UNCHANGED <<now, suspendFailed, qris, nextSid, sw, swLog,
                   autoSuspended, rc, provVars>>

(***************************************************************************)
(* The expiration sweeper: the setInterval callback, one tick at a time.   *)
(* sw.read is the list as loaded, sw.db the list being mutated.            *)
(***************************************************************************)
SwIdle == [ pc |-> "idle", read |-> <<>>, db |-> <<>>, now |-> 0, i |-> 0,
            dbChanged |-> FALSE, panelsToDelete |-> <<>>, queue |-> <<>> ]

\* const db = await loadServerDatabase(); const now = Date.now();
\* fetchData answers [] when the read fails
TickStart ==
    /\ sw.pc = "idle"
    /\ \E readOk \in BOOLEAN :
         LET db == IF readOk THEN store ELSE <<>>
         IN  sw' = [ pc |-> "suspend", read |-> db, db |-> db,
                     now |-> now, i |-> 1, dbChanged |-> FALSE,
                     panelsToDelete |-> <<>>, queue |-> <<>> ]
    /\ dp' = DpNone
    /\ UNCHANGED <<now, suspendFailed, shopVars, store, remoteVars,
                   panelsStorage, swLog, autoSuspended, rc, provVars>>

\* Math.floor((now - expireTime) / (1000 * 60 * 60 * 24))
DaysExpired(tnow, expireTime) == FloorDiv(tnow - expireTime, Day)

\* a suspend test that forgets the expiry
SuspendDueAnyTime(srv, tnow) == srv.suspend_by # "auto"

\* a suspend test that gives a Subscription up after a failed call
SuspendDueOnce(srv, tnow) ==
    srv.expires_at < tnow /\ srv.suspend_by # "auto" /\ srv.id \notin suspendFailed

\* if (expireTime < now && srv.suspend_by !== 'auto')
SuspendDue(srv, tnow) == srv.expires_at < tnow /\ srv.suspend_by # "auto"

\* a delete test that waits for the tick after the suspension
DeleteDueWhenSuspended(srv, tnow) ==
    /\ srv.expires_at < tnow
    /\ DaysExpired(tnow, srv.expires_at) >= AUTO_DELETE_AFTER_DAYS
    /\ srv.suspend_by = "auto"

\* if (expireTime < now && daysExpired >= AUTO_DELETE_AFTER_DAYS)
DeleteDue(srv, tnow) ==
    srv.expires_at < tnow /\ DaysExpired(tnow, srv.expires_at) >= AUTO_DELETE_AFTER_DAYS

\* a suspend pass without the admin test
AdminLockIgnored(srv) == FALSE

\* if (srv.suspend_by === 'admin') continue;
AdminLocked(srv) == srv.suspend_by = "admin"

\* one iteration of the suspend pass
SweepRecord ==
    /\ sw.pc = "suspend"
    /\ sw.i <= Len(sw.db)
    /\ LET srv == sw.db[sw.i]
           queued == IF DeleteDue(srv, sw.now)
                     THEN Append(sw.panelsToDelete,
                                 [index |-> sw.i, serverId |-> srv.server_id,
                                  username |-> srv.username])
                     ELSE sw.panelsToDelete
       IN  IF AdminLocked(srv)
           THEN /\ sw' = [sw EXCEPT !.i = sw.i + 1]
                /\ UNCHANGED <<rServers, swLog>>
           ELSE IF SuspendDue(srv, sw.now)
           THEN \E callOk \in BOOLEAN :
                  \* axios.post servers/:id/suspend; a missing server answers 404
                  LET ok == callOk /\ srv.server_id \in DOMAIN rServers
                  IN  /\ rServers' = IF ok
                                     THEN [rServers EXCEPT ![srv.server_id].suspended = TRUE]
                                     ELSE rServers
                      /\ swLog' = Append(swLog, [op |-> "suspend",
                                                 idx |-> sw.i, id |-> srv.id,
                                                 sid |-> srv.server_id, ok |-> ok,
                                                 remote |-> "n/a"])
                      /\ sw' = [sw EXCEPT
                                  !.db = IF ok THEN [sw.db EXCEPT ![sw.i].suspend_by = "auto"]
                                         ELSE sw.db,
                                  !.dbChanged = sw.dbChanged \/ ok,
                                  !.panelsToDelete = queued,
                                  !.i = sw.i + 1]
           ELSE /\ sw' = [sw EXCEPT !.panelsToDelete = queued, !.i = sw.i + 1]
                /\ UNCHANGED <<rServers, swLog>>
    /\ dp' = DpNone
    /\ UNCHANGED <<now, suspendFailed, shopVars, store, rUsers, nextSid,
                   panelsStorage, autoSuspended, rc, provVars>>

\* for (const panel of panelsToDelete.reverse())
SweepSuspendDone ==
    /\ sw.pc = "suspend"
    /\ sw.i > Len(sw.db)
    /\ sw' = [sw EXCEPT !.pc = "delete", !.queue = Reverse(sw.panelsToDelete)]
    /\ dp' = DpNone
    /\ UNCHANGED <<now, suspendFailed, shopVars, store, remoteVars,
                   panelsStorage, swLog, autoSuspended, rc, provVars>>

\* const success = await deleteExpiredPanel(...); if (success) db.splice(panel.index, 1)
SweepDelete ==
    /\ sw.pc = "delete"
    /\ sw.queue # <<>>
    /\ \E o \in Outcomes :
         LET panel == Head(sw.queue)
             r == DeleteExpiredPanel(rServers, rUsers, panelsStorage, panel.serverId, o)
         IN  /\ OnlyIssued(o, r.issued)
             /\ rServers' = r.servers
             /\ rUsers' = r.users
             /\ panelsStorage' = r.panels
             /\ dp' = r.dp
             /\ swLog' = Append(swLog, [op |-> "deprovision",
                                        idx |-> panel.index, id |-> sw.read[panel.index].id,
                                        sid |-> panel.serverId, ok |-> r.result,
                                        remote |-> r.remote])
             /\ sw' = [sw EXCEPT
                         !.queue = Tail(sw.queue),
                         !.db = IF r.result THEN Splice(sw.db, panel.index) ELSE sw.db,
                         !.dbChanged = sw.dbChanged \/ r.result]
    /\ UNCHANGED <<now, suspendFailed, shopVars, store, nextSid,
                   autoSuspended, rc, provVars>>

\* a tick that writes whether or not it changed the list
SweepSaveAlways ==
    /\ sw.pc = "delete"
    /\ sw.queue = <<>>
    /\ \E writeOk \in BOOLEAN, currentSettings \in LoadSettings :
         /\ store' = IF writeOk THEN sw.db ELSE store
         /\ SaveSettingsEntry(currentSettings, writeOk)
         /\ swLog' = Append(swLog, [op |-> "write", idx |-> 0,
                                    id |-> <<"", 0>>, sid |-> 0, ok |-> writeOk,
                                    remote |-> "n/a"])
    /\ sw' = [sw EXCEPT !.pc = "done"]
    /\ dp' = DpNone
    /\ UNCHANGED <<now, suspendFailed, qris, remoteVars, panelsStorage,
                   autoSuspended, rc, provVars>>

\* if (dbChanged) await saveServerDatabase(db); updateData swallows a failed write
SweepSave ==
    /\ sw.pc = "delete"
    /\ sw.queue = <<>>
    /\ \/ /\ sw.dbChanged
          /\ \E writeOk \in BOOLEAN, currentSettings \in LoadSettings :
               /\ store' = IF writeOk THEN sw.db ELSE store
               /\ SaveSettingsEntry(currentSettings, writeOk)
               /\ swLog' = Append(swLog, [op |-> "write", idx |-> 0,
                                          id |-> <<"", 0>>, sid |-> 0, ok |-> writeOk,
                                          remote |-> "n/a"])
       \/ /\ ~sw.dbChanged
          /\ UNCHANGED <<store, swLog, settings, settingsCache>>
    /\ sw' = [sw EXCEPT !.pc = "done"]
    /\ dp' = DpNone
    /\ UNCHANGED <<now, suspendFailed, qris, remoteVars, panelsStorage,
                   autoSuspended, rc, provVars>>

\* the callback returns: its locals are gone
TickReturn ==
    /\ sw.pc = "done"
    /\ sw' = SwIdle
    /\ swLog' = <<>>
    /\ dp' = DpNone
    /\ autoSuspended' = autoSuspended \cup
                           {swLog[k].id : k \in {j \in DOMAIN swLog :
                                                    swLog[j].op = "suspend" /\ swLog[j].ok}}
    /\ suspendFailed' = {swLog[k].id : k \in {j \in DOMAIN swLog :
                                                    swLog[j].op = "suspend" /\ ~swLog[j].ok}}
    /\ UNCHANGED <<now, shopVars, store, remoteVars, panelsStorage, rc,
                   provVars>>

\* the clock advances between ticks
AdvanceTime ==
    /\ sw.pc = "idle"
    /\ now < MaxTime
    /\ now' = now + 1
    /\ dp' = DpNone
    /\ UNCHANGED <<store, remoteVars, panelsStorage, sw, swLog, autoSuspended,
                   rc, provVars, suspendFailed, shopVars>>

(***************************************************************************)
(* The reconciler: GET /admin.                                             *)
(***************************************************************************)
\* let stats = { total: 0, active: 0, suspended: 0, expired: 0 }
StatsZero == [total |-> 0, active |-> 0, suspended |-> 0, expired |-> 0]

\* locals of the handler; loaded (what loadServerDatabase returned), fetched
\* (how the remote list fetch ended) and writes (calls of saveServerDatabase)
\* are history
RcIdle ==
    [ pc |-> "idle", storedPanels |-> <<>>, enriched |-> <<>>, stats |-> StatsZero,
      loaded |-> <<>>, fetched |-> "none", writes |-> 0 ]

\* the expires_at of a record that has none
NoExpiry == -1000

\* an import that counts the 30 days from the time of the read
ImportedFromNow(serverId, attr) ==
    [ id |-> <<"AUTO", serverId>>, server_id |-> serverId, owner_id |-> attr.owner,
      username |-> attr.owner, days |-> defaultDays,
      expires_at |-> now + defaultDays * Day, suspend_by |-> "none" ]

\* the Subscription synthesized for a remote server without a local record
ImportedEntry(serverId, attr) ==
    [ id |-> <<"AUTO", serverId>>, server_id |-> serverId, owner_id |-> attr.owner,
      username |-> attr.owner, days |-> defaultDays,
      expires_at |-> attr.created_at + defaultDays * Day, suspend_by |-> "none" ]

\* expiresAt: panel_data.expires_at, or created_at + days for a record without it
ExpiresAt(storedPanel, createdTime) ==
    IF storedPanel.expires_at # NoExpiry
    THEN storedPanel.expires_at
    ELSE createdTime + storedPanel.days * Day

\* Math.ceil((expiresAt - now) / (1000 * 60 * 60 * 24))
DaysLeft(expiresAt, tnow) == CeilDiv(expiresAt - tnow, Day)

\* a derivation that looks at the expiry first
StatusCodeExpiryFirst(isRealSuspended, localSuspendBy, daysLeft) ==
    IF daysLeft <= 0 THEN "expired_running"
    ELSE IF isRealSuspended
         THEN IF localSuspendBy = "admin" THEN "admin_locked" ELSE "suspended"
         ELSE "active"

\* a derivation that takes a server suspended by the sweeper for a running one
StatusCodeAutoRuns(isRealSuspended, localSuspendBy, daysLeft) ==
    IF isRealSuspended /\ localSuspendBy # "auto"
    THEN IF localSuspendBy = "admin" THEN "admin_locked" ELSE "suspended"
    ELSE IF daysLeft <= 0 THEN "expired_running" ELSE "active"

\* statusCode
StatusCode(isRealSuspended, localSuspendBy, daysLeft) ==
    IF isRealSuspended
    THEN IF localSuspendBy = "admin" THEN "admin_locked" ELSE "suspended"
    ELSE IF daysLeft <= 0 THEN "expired_running" ELSE "active"

\* the entry of enrichedServers for one remote server
Enrich(serverId, attr, storedPanel, tnow) ==
    LET expiresAt == ExpiresAt(storedPanel, attr.created_at)
        daysLeft == DaysLeft(expiresAt, tnow)
    IN  [ serverId |-> serverId, suspended |-> attr.suspended,
          suspend_by |-> storedPanel.suspend_by, expires_at |-> expiresAt,
          now |-> tnow, daysLeft |-> daysLeft,
          statusCode |-> StatusCode(attr.suspended, storedPanel.suspend_by, daysLeft) ]

\* stats.suspended++, stats.expired++, stats.active++
CountStatus(stats, statusCode) ==
    CASE statusCode \in {"admin_locked", "suspended"} ->
             [stats EXCEPT !.suspended = @ + 1]
      [] statusCode = "expired_running" -> [stats EXCEPT !.expired = @ + 1]
      [] OTHER -> [stats EXCEPT !.active = @ + 1]

\* response.data.data.map(server => ...), from server id sid on, in id order
RECURSIVE Reconcile(_, _, _, _)
Reconcile(sid, S, acc, tnow) ==
    IF \A s \in DOMAIN S : s < sid THEN acc
    ELSE IF sid \notin DOMAIN S THEN Reconcile(sid + 1, S, acc, tnow)
    ELSE LET idx == IndexOfServer(acc.panels, sid)
             storedPanel == IF idx = 0 THEN ImportedEntry(sid, S[sid]) ELSE acc.panels[idx]
             entry == Enrich(sid, S[sid], storedPanel, tnow)
         IN  Reconcile(sid + 1, S,
                       [ panels |-> IF idx = 0 THEN Append(acc.panels, storedPanel)
                                    ELSE acc.panels,
                         enriched |-> Append(acc.enriched, entry),
                         stats |-> CountStatus(acc.stats, entry.statusCode),
                         updated |-> acc.updated \/ idx = 0 ],
                       tnow)

\* a handler whose failed fetch ends the request with an error
FetchErrorFatal(r) == [r EXCEPT !.pc = "error", !.fetched = "failed"]

\* catch (apiError) {}: the handler goes on to render what it has
AfterFetchError(r) == [r EXCEPT !.pc = "render", !.fetched = "failed"]

\* let storedPanels = await loadServerDatabase();
ReconLoad ==
    /\ rc.pc = "idle"
    /\ \E readOk \in BOOLEAN :
         rc' = [RcIdle EXCEPT !.pc = "fetch",
                               !.storedPanels = IF readOk THEN store ELSE <<>>,
                               !.loaded = IF readOk THEN store ELSE <<>>]
    /\ UNCHANGED <<now, suspendFailed, shopVars, store, remoteVars,
                   panelsStorage, sw, swLog, autoSuspended, dp, provVars>>

\* the answer of axios.get servers?include=user, and the map over it; a failed
\* fetch leaves enrichedServers empty
ReconFetch ==
    /\ rc.pc = "fetch"
    /\ \E fetchOk \in BOOLEAN :
         IF fetchOk
         THEN LET r == Reconcile(1, rServers,
                                 [panels |-> rc.storedPanels, enriched |-> <<>>,
                                  stats |-> [StatsZero EXCEPT
                                               !.total = Cardinality(DOMAIN rServers)],
                                  updated |-> FALSE], now)
              IN  rc' = [rc EXCEPT !.pc = IF r.updated THEN "save" ELSE "render",
                                   !.storedPanels = r.panels, !.enriched = r.enriched,
                                   !.stats = r.stats, !.fetched = "ok"]
         ELSE rc' = AfterFetchError(rc)
    /\ UNCHANGED <<now, suspendFailed, shopVars, store, remoteVars,
                   panelsStorage, sw, swLog, autoSuspended, dp, provVars>>

\* if (isDatabaseUpdated) await saveServerDatabase(storedPanels);
ReconSave ==
    /\ rc.pc = "save"
    /\ \E writeOk \in BOOLEAN, currentSettings \in LoadSettings :
         /\ store' = IF writeOk THEN rc.storedPanels ELSE store
         /\ SaveSettingsEntry(currentSettings, writeOk)
    /\ rc' = [rc EXCEPT !.pc = "render", !.writes = @ + 1]
    /\ UNCHANGED <<now, suspendFailed, qris, remoteVars, panelsStorage, sw,
                   swLog, autoSuspended, dp, provVars>>

\* res.render('dash-admin', {panels: storedPanels, pterodactylServers: enrichedServers})
ReconRender ==
    /\ rc.pc = "render"
    /\ rc' = RcIdle
    /\ UNCHANGED <<now, suspendFailed, shopVars, store, remoteVars,
                   panelsStorage, sw, swLog, autoSuspended, dp, provVars>>

(***************************************************************************)
(* Provisioning: createRealPterodactylPanel and the handlers that call it. *)
(* An order of the cache is [key, obj, type, server_id, username, days,    *)
(* status, panel_data, panel_error]; panel_data is <<>> for null and       *)
(* <<panelData>> otherwise, server_id is 0 as long as the order has none.  *)
(* obj tells the objects apart that create-qris stores under one order_id: *)
(* check-payment and manual-check keep the object they looked up.          *)
(***************************************************************************)
Procs == 1..MaxProcs
Orders == 1..MaxOrders

OrderKey(o) == <<"ORDER", o>>

PIdle == [ kind |-> "none", pc |-> "idle", order |-> <<"", 0>>, obj |-> 0,
           type |-> "new", server_id |-> 0, username |-> NoUser, days |-> 0,
           pd |-> <<>>, db |-> <<>>, cause |-> "none", error |-> "none",
           newSettings |-> <<>>, product_name |-> NoName ]

MadeNone == [accounts |-> {}, servers |-> {}]

\* panelsStorage[order_id]
HasOrder(P, key) == \E j \in DOMAIN P : P[j].key = key
OrderOf(P, key) == P[CHOOSE j \in DOMAIN P : P[j].key = key]

\* requests start in the first free slot
FreeSlot(p) == procs[p].pc = "idle" /\ \A q \in 1..(p - 1) : procs[q].pc # "idle"

\* the call of createRealPterodactylPanel(orderData): the username check is sent
StartProvisioning(p, kind, ord) ==
    procs' = [procs EXCEPT ![p] = [PIdle EXCEPT !.kind = kind, !.pc = "precheck",
                                                !.order = ord.key, !.obj = ord.obj,
                                                !.username = ord.username,
                                                !.product_name = ord.product_name,
                                                !.days = ord.days]]

\* the call of renewPanel(orderData): the persisted list is requested
StartRenewal(p, kind, ord) ==
    procs' = [procs EXCEPT ![p] = [PIdle EXCEPT !.kind = kind, !.pc = "renewLoad",
                                                !.order = ord.key, !.obj = ord.obj,
                                                !.type = "renewal",
                                                !.server_id = ord.server_id,
                                                !.username = ord.username,
                                                !.days = ord.days]]

\* if (orderData.type === 'renewal') renewPanel(orderData)
\* else createRealPterodactylPanel(orderData)
StartWorkflow(p, kind, ord) ==
    IF ord.type = "renewal" THEN StartRenewal(p, kind, ord)
    ELSE StartProvisioning(p, kind, ord)

\* POST /api/create-qris for an order_id the cache holds, at the gateway's
\* answer: panelsStorage[order_id] = {..., status: 'pending', panel_data: null};
\* the gateway goes on reporting the transaction it had or reports the new one
CreateQris(o) ==
    /\ HasOrder(panelsStorage, OrderKey(o))
    /\ OrderOf(panelsStorage, OrderKey(o)).obj < MaxQris
    /\ panelsStorage' =
         [j \in DOMAIN panelsStorage |->
            IF panelsStorage[j].key = OrderKey(o)
            THEN [ key |-> OrderKey(o), obj |-> panelsStorage[j].obj + 1,
                   type |-> panelsStorage[j].type, server_id |-> 0,
                   product_id |-> panelsStorage[j].product_id,
                   product_name |-> panelsStorage[j].product_name,
                   username |-> panelsStorage[j].username,
                   days |-> panelsStorage[j].days, status |-> "pending",
                   panel_data |-> <<>>, panel_error |-> "none" ]
            ELSE panelsStorage[j]]
    /\ \E status \in {gateway[o], "pending"} :
         gateway' = [gateway EXCEPT ![o] = status]
    /\ UNCHANGED <<now, suspendFailed, shopVars, store, remoteVars, sw, swLog,
                   autoSuspended, dp, rc, procs, made>>

\* the gateway turns the transaction to 'completed'
GatewayCompletes(o) ==
    /\ gateway[o] = "pending"
    /\ gateway' = [gateway EXCEPT ![o] = "completed"]
    /\ UNCHANGED <<now, suspendFailed, shopVars, store, remoteVars,
                   panelsStorage, sw, swLog, autoSuspended, dp, rc, procs,
                   made>>

\* GET /api/check-payment, at the gateway's answer:
\* if (transaction?.status === 'completed' && !orderData.panel_data)
CheckPayment(p, o) ==
    /\ FreeSlot(p)
    /\ HasOrder(panelsStorage, OrderKey(o))
    /\ gateway[o] = "completed"
    /\ OrderOf(panelsStorage, OrderKey(o)).panel_data = <<>>
    /\ StartWorkflow(p, "check", OrderOf(panelsStorage, OrderKey(o)))
    /\ UNCHANGED <<now, suspendFailed, shopVars, store, remoteVars,
                   panelsStorage, gateway, sw, swLog, autoSuspended, dp, rc,
                   made>>

\* POST /api/manual-check, at the gateway's answer
ManualCheck(p, o) ==
    /\ FreeSlot(p)
    /\ HasOrder(panelsStorage, OrderKey(o))
    /\ gateway[o] = "completed"
    /\ OrderOf(panelsStorage, OrderKey(o)).panel_data = <<>>
    /\ StartWorkflow(p, "manual", OrderOf(panelsStorage, OrderKey(o)))
    /\ UNCHANGED <<now, suspendFailed, shopVars, store, remoteVars,
                   panelsStorage, gateway, sw, swLog, autoSuspended, dp, rc,
                   made>>

\* POST /api/force-create-panel for an order of the cache:
\* const orderData = panelsStorage[order_id] || {...}
ForceCreatePanel(p, o) ==
    /\ FreeSlot(p)
    /\ HasOrder(panelsStorage, OrderKey(o))
    /\ StartProvisioning(p, "force", OrderOf(panelsStorage, OrderKey(o)))
    /\ UNCHANGED <<now, suspendFailed, shopVars, store, remoteVars,
                   panelsStorage, gateway, sw, swLog, autoSuspended, dp, rc,
                   made>>

\* POST /admin/create-panel: const orderId = `ADMIN-${Date.now()}`
AdminCreatePanel(p, username) ==
    /\ FreeSlot(p)
    /\ StartProvisioning(p, "admin", [ key |-> <<"ADMIN", now>>, obj |-> 0,
                                       username |-> username,
                                       product_name |-> Panel1GB, days |-> 1 ])
    /\ UNCHANGED <<now, suspendFailed, shopVars, store, remoteVars,
                   panelsStorage, gateway, sw, swLog, autoSuspended, dp, rc,
                   made>>

\* a catch that drops the error
WithoutError(P, key, obj, error) == P

\* a catch that fills panel_data with a placeholder
WithErrorAndPanel(P, key, obj, error) ==
    [j \in DOMAIN P |-> IF P[j].key = key /\ P[j].obj = obj
                        THEN [P[j] EXCEPT !.status = "completed", !.panel_error = error,
                                          !.panel_data = <<[server_id |-> 0]>>]
                        ELSE P[j]]

\* orderData.status = 'completed'; orderData.panel_error = panelError.message
\* (an object that is no longer in the cache is out of sight)
WithError(P, key, obj, error) ==
    [j \in DOMAIN P |-> IF P[j].key = key /\ P[j].obj = obj
                        THEN [P[j] EXCEPT !.status = "completed", !.panel_error = error]
                        ELSE P[j]]

\* orderData.panel_data = panelData; orderData.status = 'completed'
WithPanel(P, key, obj, panelData) ==
    [j \in DOMAIN P |-> IF P[j].key = key /\ P[j].obj = obj
                        THEN [P[j] EXCEPT !.status = "completed",
                                          !.panel_data = <<panelData>>]
                        ELSE P[j]]

\* force-create-panel: panelsStorage[order_id], whatever object is there now,
\* or a new order
ForcedPanel(P, key, username, panelData) ==
    IF HasOrder(P, key)
    THEN WithPanel(P, key, OrderOf(P, key).obj, panelData)
    ELSE Append(P, [ key |-> key, obj |-> 0, type |-> "new", server_id |-> 0,
                     product_id |-> "none", product_name |-> NoName,
                     username |-> username, days |-> 0,
                     status |-> "completed", panel_data |-> <<panelData>>,
                     panel_error |-> "none" ])

\* createRealPterodactylPanel throws: the error reaches the handler's catch
Throw(p, cause, error) ==
    procs' = [procs EXCEPT ![p].pc = "catch", ![p].cause = cause, ![p].error = error]

\* catch (panelError) of check-payment and manual-check (the order is marked
\* completed with the message), catch (error) of force-create-panel and of
\* admin create-panel (the 500 answer)
HandlerCatch(p) ==
    /\ procs[p].pc = "catch"
    /\ panelsStorage' = IF procs[p].kind \in {"check", "manual"}
                        THEN WithError(panelsStorage, procs[p].order, procs[p].obj,
                                       procs[p].error)
                        ELSE panelsStorage
    /\ procs' = [procs EXCEPT ![p] = PIdle]
    /\ UNCHANGED <<now, suspendFailed, shopVars, store, remoteVars, gateway,
                   sw, swLog, autoSuspended, dp, rc, made>>

\* the answer of axios.get users?filter[username]=...: a transport failure
\* throws the request error, a hit throws 'Username ... sudah terdaftar.',
\* otherwise axios.post users is sent
ProvPreCheck(p) ==
    /\ procs[p].pc = "precheck"
    /\ \E callOk \in BOOLEAN :
         IF ~callOk
         THEN Throw(p, "transport", "RequestFailed")
         ELSE IF procs[p].username \in rUsers
         THEN Throw(p, "username_exists", "DuplicateUser")
         ELSE procs' = [procs EXCEPT ![p].pc = "createUser"]
    /\ UNCHANGED <<now, suspendFailed, shopVars, store, remoteVars,
                   panelsStorage, gateway, sw, swLog, autoSuspended, dp, rc,
                   made>>

\* the answer of axios.post users: the control-plane rejects a username it has
\* (422: axios throws the request error)
ProvCreateUser(p) ==
    /\ procs[p].pc = "createUser"
    /\ \E callOk \in BOOLEAN :
         IF ~callOk
         THEN /\ Throw(p, "transport", "RequestFailed")
              /\ UNCHANGED <<rUsers, made>>
         ELSE IF procs[p].username \in rUsers
         THEN /\ Throw(p, "username_exists", "RequestFailed")
              /\ UNCHANGED <<rUsers, made>>
         ELSE /\ rUsers' = rUsers \cup {procs[p].username}
              /\ made' = [made EXCEPT !.accounts =
                             @ \cup {[order |-> procs[p].order, id |-> procs[p].username]}]
              /\ procs' = [procs EXCEPT ![p].pc = "createServer"]
    /\ UNCHANGED <<now, suspendFailed, shopVars, store, rServers, nextSid,
                   panelsStorage, gateway, sw, swLog, autoSuspended, dp, rc>>

\* the record createRealPterodactylPanel returns
PanelData(serverId, username, days, tnow, ram) ==
    [server_id |-> serverId, username |-> username, expires_at |-> tnow + days * Day,
     ram |-> ram]

\* the answers of axios.get eggs and axios.post servers, and the handler's code
\* after createRealPterodactylPanel returns, up to its next await
ProvCreateServer(p) ==
    /\ procs[p].pc = "createServer"
    /\ \E callOk \in BOOLEAN :
         IF ~callOk
         THEN /\ Throw(p, "transport", "RequestFailed")
              /\ UNCHANGED <<rServers, nextSid, made, panelsStorage>>
         ELSE LET panelData == PanelData(nextSid, procs[p].username, procs[p].days, now,
                                            SpecRam(SpecKey(procs[p].product_name)))
              IN  /\ rServers' = [s \in DOMAIN rServers \cup {nextSid} |->
                                    IF s = nextSid
                                    THEN [owner |-> procs[p].username,
                                          suspended |-> FALSE, created_at |-> now]
                                    ELSE rServers[s]]
                  /\ nextSid' = nextSid + 1
                  /\ made' = [made EXCEPT !.servers =
                                 @ \cup {[order |-> procs[p].order, id |-> nextSid]}]
                  /\ panelsStorage' =
                       CASE procs[p].kind = "admin" -> panelsStorage
                         [] procs[p].kind = "force" ->
                              ForcedPanel(panelsStorage, procs[p].order,
                                          procs[p].username, panelData)
                         [] OTHER ->
                              WithPanel(panelsStorage, procs[p].order, procs[p].obj,
                                        panelData)
                  /\ procs' = IF procs[p].kind \in {"check", "admin"}
                              THEN [procs EXCEPT ![p].pc = "load",
                                                 ![p].pd = <<panelData>>]
                              ELSE [procs EXCEPT ![p] = PIdle]
    /\ UNCHANGED <<now, suspendFailed, shopVars, store, rUsers, gateway, sw,
                   swLog, autoSuspended, dp, rc>>

\* the Subscription of an order (newServerEntry) or of an admin panel (newServerData)
NewServerEntry(key, panelData, days) ==
    [ id |-> key, server_id |-> panelData.server_id, owner_id |-> NoUser,
      username |-> panelData.username, days |-> days,
      expires_at |-> panelData.expires_at, suspend_by |-> "none" ]

\* check-payment after a renewal: the record of orderData.server_id, if the
\* list has one, gets the order's days added and the new expiry
RenewedEntry(currentDb, serverId, days, panelData) ==
    LET existingIdx == IndexOfServer(currentDb, serverId)
    IN  IF existingIdx # 0
        THEN [currentDb EXCEPT ![existingIdx].days = @ + days,
                               ![existingIdx].expires_at = panelData.new_expiry]
        ELSE currentDb

\* let currentDb = await loadServerDatabase(); currentDb.push(newServerEntry),
\* or the update of the renewed record
PersistLoad(p) ==
    /\ procs[p].pc = "load"
    /\ \E readOk \in BOOLEAN :
         LET currentDb == IF readOk THEN store ELSE <<>>
         IN  procs' = [procs EXCEPT
                         ![p].pc = "save",
                         ![p].db = IF procs[p].type = "renewal"
                                   THEN RenewedEntry(currentDb, procs[p].server_id,
                                                     procs[p].days, procs[p].pd[1])
                                   ELSE Append(currentDb,
                                               NewServerEntry(procs[p].order,
                                                              procs[p].pd[1],
                                                              procs[p].days))]
    /\ UNCHANGED <<now, suspendFailed, shopVars, store, remoteVars,
                   panelsStorage, gateway, sw, swLog, autoSuspended, dp, rc,
                   made>>

\* await saveServerDatabase(currentDb); the admin handler then caches newServerData
PersistSave(p) ==
    /\ procs[p].pc = "save"
    /\ \E writeOk \in BOOLEAN, currentSettings \in LoadSettings :
         /\ store' = IF writeOk THEN procs[p].db ELSE store
         /\ SaveSettingsEntry(currentSettings, writeOk)
    /\ panelsStorage' =
         IF procs[p].kind = "admin"
         THEN LET entry == [ key |-> procs[p].order, obj |-> 0, type |-> "new",
                             server_id |-> 0, product_id |-> "none",
                             product_name |-> procs[p].product_name,
                             username |-> procs[p].username,
                             days |-> procs[p].days, status |-> "active",
                             panel_data |-> procs[p].pd, panel_error |-> "none" ]
              IN  IF HasOrder(panelsStorage, procs[p].order)
                  THEN [j \in DOMAIN panelsStorage |->
                          IF panelsStorage[j].key = procs[p].order THEN entry
                          ELSE panelsStorage[j]]
                  ELSE Append(panelsStorage, entry)
         ELSE panelsStorage
    /\ procs' = [procs EXCEPT ![p] = PIdle]
    /\ UNCHANGED <<now, suspendFailed, qris, remoteVars, gateway, sw, swLog,
                   autoSuspended, dp, rc, made>>

(***************************************************************************)
(* Renewal: renewPanel, called by check-payment and manual-check for an    *)
(* order of type 'renewal', and the administrator's add-time.              *)
(***************************************************************************)
\* db.findIndex(p => p.username === orderData.username ||
\*                   (p.panel_data && p.panel_data.username === orderData.username))
IndexOfUsername(list, username) ==
    IF \E j \in DOMAIN list : list[j].username = username
    THEN CHOOSE j \in DOMAIN list :
             /\ list[j].username = username
             /\ \A k \in 1..(j - 1) : list[k].username # username
    ELSE 0

\* a renewal that computes its expiry from now whatever the record holds
FromNowExpire(currentExpire, tnow, addDays) == tnow + addDays * Day

\* an extension that starts from the stored expiry even when it is past
StaleBaseExpire(currentExpire, tnow, addDays) == currentExpire + addDays * Day

\* renewPanel: if (currentExpire < Date.now()) currentExpire = Date.now();
\*             newExpire = currentExpire + addDays * 24 * 60 * 60 * 1000
NewExpire(currentExpire, tnow, addDays) ==
    (IF currentExpire < tnow THEN tnow ELSE currentExpire) + addDays * Day

\* POST /admin/addtime: the same computation
AddTimeNewExpire(currentExpire, tnow, addDays) ==
    (IF currentExpire < tnow THEN tnow ELSE currentExpire) + addDays * Day

\* orderData.server_id = db[serverIndexByUsername].panel_data.server_id
WithServerId(P, key, obj, serverId) ==
    [j \in DOMAIN P |-> IF P[j].key = key /\ P[j].obj = obj
                        THEN [P[j] EXCEPT !.server_id = serverId]
                        ELSE P[j]]

\* the answer of loadServerDatabase in renewPanel: the record is looked up by
\* orderData.server_id, then by username (renewPanel calls itself with the
\* server_id it found), and a missing record throws
RenewLoad(p) ==
    /\ procs[p].pc = "renewLoad"
    /\ \E readOk \in BOOLEAN :
         LET db == IF readOk THEN store ELSE <<>>
             serverIndex == IndexOfServer(db, procs[p].server_id)
             serverIndexByUsername == IndexOfUsername(db, procs[p].username)
         IN  IF serverIndex = 0 /\ serverIndexByUsername # 0
             THEN /\ procs' = [procs EXCEPT
                                 ![p].server_id = db[serverIndexByUsername].server_id]
                  /\ panelsStorage' =
                       WithServerId(panelsStorage, procs[p].order, procs[p].obj,
                                    db[serverIndexByUsername].server_id)
             ELSE IF serverIndex = 0
             THEN /\ Throw(p, "not_found", "SubscriptionNotFound")
                  /\ UNCHANGED panelsStorage
             ELSE /\ procs' = [procs EXCEPT ![p].pc = "renewCompute", ![p].db = db]
                  /\ UNCHANGED panelsStorage
    /\ UNCHANGED <<now, suspendFailed, shopVars, store, remoteVars, gateway,
                   sw, swLog, autoSuspended, dp, rc, made>>

\* renewPanel after await loadSettings(): the new expiry, the days and the
\* suspend_by of the record; saveServerDatabase(db) is called
RenewCompute(p) ==
    /\ procs[p].pc = "renewCompute"
    /\ LET serverIndex == IndexOfServer(procs[p].db, procs[p].server_id)
       IN  procs' = [procs EXCEPT
                       ![p].pc = "renewSave",
                       ![p].db[serverIndex].expires_at =
                           NewExpire(@, now, procs[p].days),
                       ![p].db[serverIndex].days = @ + procs[p].days,
                       ![p].db[serverIndex].suspend_by = "none"]
    /\ UNCHANGED <<now, suspendFailed, shopVars, store, remoteVars,
                   panelsStorage, gateway, sw, swLog, autoSuspended, dp, rc,
                   made>>

\* the end of saveServerDatabase(db); the unsuspend call is sent
RenewSave(p) ==
    /\ procs[p].pc = "renewSave"
    /\ \E writeOk \in BOOLEAN, currentSettings \in LoadSettings :
         /\ store' = IF writeOk THEN procs[p].db ELSE store
         /\ SaveSettingsEntry(currentSettings, writeOk)
    /\ procs' = [procs EXCEPT ![p].pc = "renewUnsuspend"]
    /\ UNCHANGED <<now, suspendFailed, qris, remoteVars, panelsStorage,
                   gateway, sw, swLog, autoSuspended, dp, rc, made>>

\* POST servers/:id/unsuspend
Unsuspended(S, serverId, callOk) ==
    IF callOk /\ serverId \in DOMAIN S
    THEN [S EXCEPT ![serverId].suspended = FALSE]
    ELSE S

\* what renewPanel returns
RenewalData(server, serverId) ==
    [ server_id |-> serverId, username |-> server.username,
      new_expiry |-> server.expires_at, total_days |-> server.days ]

\* the answer of the unsuspend call (best effort), the return of renewPanel and
\* the handler's code up to its next await
RenewUnsuspend(p) ==
    /\ procs[p].pc = "renewUnsuspend"
    /\ \E callOk \in BOOLEAN :
         rServers' = Unsuspended(rServers, procs[p].server_id, callOk)
    /\ LET server == procs[p].db[IndexOfServer(procs[p].db, procs[p].server_id)]
           panelData == RenewalData(server, procs[p].server_id)
       IN  /\ panelsStorage' = WithPanel(panelsStorage, procs[p].order, procs[p].obj,
                                         panelData)
           /\ procs' = IF procs[p].kind = "check"
                       THEN [procs EXCEPT ![p].pc = "load", ![p].pd = <<panelData>>]
                       ELSE [procs EXCEPT ![p] = PIdle]
    /\ UNCHANGED <<now, suspendFailed, shopVars, store, rUsers, nextSid,
                   gateway, sw, swLog, autoSuspended, dp, rc, made>>

\* POST /admin/addtime, at the answer of loadServerDatabase: a server without a
\* record gets the 404; otherwise the new expiry, the days and the suspend_by
\* of the record, and saveServerDatabase(db) is called
AddTimeLoad(p, idserver, addDays) ==
    /\ FreeSlot(p)
    /\ IndexOfServer(store, idserver) # 0
    /\ store[IndexOfServer(store, idserver)].days + addDays <= MaxTotalDays
    /\ LET idx == IndexOfServer(store, idserver)
       IN  procs' = [procs EXCEPT ![p] =
                       [PIdle EXCEPT
                          !.kind = "addtime", !.pc = "addSave",
                          !.server_id = idserver, !.days = addDays,
                          !.db = [store EXCEPT
                                    ![idx].expires_at = AddTimeNewExpire(@, now, addDays),
                                    ![idx].days = @ + addDays,
                                    ![idx].suspend_by = "none"]]]
    /\ UNCHANGED <<now, suspendFailed, shopVars, store, remoteVars,
                   panelsStorage, gateway, sw, swLog, autoSuspended, dp, rc,
                   made>>

\* the end of saveServerDatabase(db); the unsuspend call is sent
AddTimeSave(p) ==
    /\ procs[p].pc = "addSave"
    /\ \E writeOk \in BOOLEAN, currentSettings \in LoadSettings :
         /\ store' = IF writeOk THEN procs[p].db ELSE store
         /\ SaveSettingsEntry(currentSettings, writeOk)
    /\ procs' = [procs EXCEPT ![p].pc = "addUnsuspend"]
    /\ UNCHANGED <<now, suspendFailed, qris, remoteVars, panelsStorage,
                   gateway, sw, swLog, autoSuspended, dp, rc, made>>

\* the answer of the unsuspend call (best effort) and the response
AddTimeUnsuspend(p) ==
    /\ procs[p].pc = "addUnsuspend"
    /\ \E callOk \in BOOLEAN :
         rServers' = Unsuspended(rServers, procs[p].server_id, callOk)
    /\ procs' = [procs EXCEPT ![p] = PIdle]
    /\ UNCHANGED <<now, suspendFailed, shopVars, store, rUsers, nextSid,
                   panelsStorage, gateway, sw, swLog, autoSuspended, dp, rc,
                   made>>

(***************************************************************************)
(* The administrator's reduce-time and settings-save requests.             *)
(***************************************************************************)
\* POST /admin/deltime: newTotal > 0 ? newTotal : 0
ReducedDays(days, delDays) == IF days - delDays > 0 THEN days - delDays ELSE 0

\* POST /admin/deltime, at the answer of loadServerDatabase: a server without a
\* record gets the 404; otherwise the new expiry and the days of the record,
\* and saveServerDatabase(db) is called
DelTimeLoad(p, idserver, delDays) ==
    /\ FreeSlot(p)
    /\ \E readOk \in BOOLEAN :
         LET db == IF readOk THEN store ELSE <<>>
             idx == IndexOfServer(db, idserver)
         IN  /\ idx # 0
             /\ procs' = [procs EXCEPT ![p] =
                            [PIdle EXCEPT
                               !.kind = "deltime", !.pc = "delSave",
                               !.server_id = idserver, !.days = delDays,
                               !.db = [db EXCEPT
                                         ![idx].expires_at = @ - delDays * Day,
                                         ![idx].days = ReducedDays(@, delDays)]]]
    /\ UNCHANGED <<now, suspendFailed, shopVars, store, remoteVars, panelsStorage,
                   gateway, sw, swLog, autoSuspended, dp, rc, made>>

\* the end of saveServerDatabase(db) and the response
DelTimeSave(p) ==
    /\ procs[p].pc = "delSave"
    /\ \E writeOk \in BOOLEAN, currentSettings \in LoadSettings :
         /\ store' = IF writeOk THEN procs[p].db ELSE store
         /\ SaveSettingsEntry(currentSettings, writeOk)
    /\ procs' = [procs EXCEPT ![p] = PIdle]
    /\ UNCHANGED <<now, suspendFailed, qris, remoteVars, panelsStorage, gateway,
                   sw, swLog, autoSuspended, dp, rc, made>>

\* POST /admin/api/save-settings with a price table in the request, at the
\* answer of loadSettings: newSettings is built, saveSettings(newSettings)
\* requests the document
SettingsSaveStart(p, newSettings) ==
    /\ FreeSlot(p)
    /\ \E currentSettings \in LoadSettings :
         settingsCache' = currentSettings.cache
    /\ procs' = [procs EXCEPT ![p] =
                   [PIdle EXCEPT !.kind = "settings", !.pc = "settingsFetch",
                                 !.newSettings = <<newSettings>>]]
    /\ UNCHANGED <<now, suspendFailed, settings, qris, store, remoteVars,
                   panelsStorage, gateway, sw, swLog, autoSuspended, dp, rc, made>>

\* saveSettings at the answer of fetchData ([] when the read fails): the
\* settings of the _SETTINGS_ entry are replaced, or the entry is pushed;
\* updateData(githubData) is called
SettingsFetched(p) ==
    /\ procs[p].pc = "settingsFetch"
    /\ \E readOk \in BOOLEAN :
         procs' = [procs EXCEPT ![p].pc = "settingsPut",
                                ![p].db = IF readOk THEN store ELSE <<>>]
    /\ UNCHANGED <<now, suspendFailed, shopVars, store, remoteVars, panelsStorage,
                   gateway, sw, swLog, autoSuspended, dp, rc, made>>

\* the end of updateData, which swallows a failed write: settingsCache =
\* newSettings, and the handler answers 'Settings saved successfully'
SettingsPut(p) ==
    /\ procs[p].pc = "settingsPut"
    /\ \E writeOk \in BOOLEAN :
         /\ store' = IF writeOk THEN procs[p].db ELSE store
         /\ settings' = IF writeOk THEN procs[p].newSettings[1] ELSE settings
    /\ settingsCache' = procs[p].newSettings
    /\ procs' = [procs EXCEPT ![p] = PIdle]
    /\ UNCHANGED <<now, suspendFailed, qris, remoteVars, panelsStorage, gateway,
                   sw, swLog, autoSuspended, dp, rc, made>>

(***************************************************************************)
(* POST /admin/suspend.                                                    *)
(***************************************************************************)
\* the answer of the suspend call: a call that throws ends the request with
\* the 500; otherwise loadServerDatabase is called
AdminSuspendCall(p, idserver) ==
    /\ FreeSlot(p)
    /\ idserver \in DOMAIN rServers
    /\ rServers' = [rServers EXCEPT ![idserver].suspended = TRUE]
    /\ procs' = [procs EXCEPT ![p] =
                   [PIdle EXCEPT !.kind = "suspend", !.pc = "suspendLoad",
                                 !.server_id = idserver]]
    /\ UNCHANGED <<now, suspendFailed, shopVars, store, rUsers, nextSid,
                   panelsStorage, gateway, sw, swLog, autoSuspended, dp, rc,
                   made>>

\* the answer of loadServerDatabase ([] when the read fails): the record of
\* the server gets suspend_by = 'admin' and saveServerDatabase(db) is called;
\* without a record the request is answered
AdminSuspendLoad(p) ==
    /\ procs[p].pc = "suspendLoad"
    /\ \E readOk \in BOOLEAN :
         LET db == IF readOk THEN store ELSE <<>>
             idx == IndexOfServer(db, procs[p].server_id)
         IN  procs' = IF idx # 0
                      THEN [procs EXCEPT
                              ![p].pc = "suspendSave",
                              ![p].db = [db EXCEPT ![idx].suspend_by = "admin"]]
                      ELSE [procs EXCEPT ![p] = PIdle]
    /\ UNCHANGED <<now, suspendFailed, shopVars, store, remoteVars, panelsStorage,
                   gateway, sw, swLog, autoSuspended, dp, rc, made>>

\* the end of saveServerDatabase(db) and the response
AdminSuspendSave(p) ==
    /\ procs[p].pc = "suspendSave"
    /\ \E writeOk \in BOOLEAN, currentSettings \in LoadSettings :
         /\ store' = IF writeOk THEN procs[p].db ELSE store
         /\ SaveSettingsEntry(currentSettings, writeOk)
    /\ procs' = [procs EXCEPT ![p] = PIdle]
    /\ UNCHANGED <<now, suspendFailed, qris, remoteVars, panelsStorage, gateway,
                   sw, swLog, autoSuspended, dp, rc, made>>

(***************************************************************************)
(* POST /api/create-qris for a new order: the validatePrice middleware and *)
(* the handler.  One request is in flight at a time; qris keeps the        *)
(* request, the price calculated for it and the response.                  *)
(***************************************************************************)
\* validatePrice at the answer of loadSettings: the 400 with the expected
\* value, or next() with req.calculatedPrice and req.basePrice and the
\* handler's call of the gateway
ValidatePrice(order_id, product_id, days, amount) ==
    /\ qris.pc = "idle"
    /\ \E currentSettings \in LoadSettings :
         LET priceMap == currentSettings.value.PRICES
             basePrice == BasePrice(priceMap, product_id)
             calculatedPrice == PriceTable[basePrice, ParseDays(days)]
             request == [QrIdle EXCEPT !.order_id = order_id,
                                       !.product_id = product_id,
                                       !.days = ParseDays(days),
                                       !.amount = amount,
                                       !.basePrice = basePrice,
                                       !.calculatedPrice = calculatedPrice]
         IN  /\ settingsCache' = currentSettings.cache
             /\ qris' = IF Truthy(amount) /\ ParseInt(amount) # calculatedPrice
                        THEN [request EXCEPT
                                !.response = <<[status |-> 400,
                                                expected |-> calculatedPrice,
                                                received |-> ParseInt(amount)]>>]
                        ELSE [request EXCEPT !.pc = "gateway"]
    /\ UNCHANGED <<now, suspendFailed, settings, store, remoteVars, panelsStorage,
                   gateway, sw, swLog, autoSuspended, dp, rc, procs, made>>

\* const amount = req.calculatedPrice || req.basePrice
QrisAmount(q) == OrElse(q.calculatedPrice, q.basePrice)

\* panelsStorage[order_id] = {...}: the order replaces the one of that id
PutOrder(P, entry) ==
    IF HasOrder(P, entry.key)
    THEN [j \in DOMAIN P |->
            IF P[j].key = entry.key
            THEN [entry EXCEPT !.obj = P[j].obj + 1] ELSE P[j]]
    ELSE Append(P, entry)

\* the handler at the gateway's answer: the order is stored and the payment
\* code answered, or the catch answers 500; a call that failed may have
\* created the transaction all the same
CreateQrisGateway(product_name) ==
    /\ qris.pc = "gateway"
    /\ \E ok \in BOOLEAN, created \in BOOLEAN :
         /\ ok => created
         /\ gateway' = IF created
                       THEN [gateway EXCEPT ![qris.order_id] = "pending"]
                       ELSE gateway
         /\ panelsStorage' =
              IF ok
              THEN PutOrder(panelsStorage,
                            [ key |-> OrderKey(qris.order_id), obj |-> 0,
                              type |-> "new", server_id |-> 0,
                              product_id |-> qris.product_id,
                              product_name |->
                                  StoredProductName(product_name, qris.product_id),
                              username |-> "u1", days |-> qris.days,
                              status |-> "pending", panel_data |-> <<>>,
                              panel_error |-> "none" ])
              ELSE panelsStorage
         /\ qris' = [qris EXCEPT
                       !.pc = "idle",
                       !.response = IF ok
                                    THEN <<[status |-> 200,
                                            amount |-> QrisAmount(qris)]>>
                                    ELSE <<[status |-> 500]>>]
    /\ UNCHANGED <<now, suspendFailed, settings, settingsCache, store, remoteVars,
                   sw, swLog, autoSuspended, dp, rc, procs, made>>

(***************************************************************************)
(* SpecSweep: sweeper ticks over a persisted list of MaxSubs Subscriptions *)
(* of servers 1..MaxSubs.  A Subscription expires two time units after the *)
(* start, or it expired a time unit or two short of the delete threshold   *)
(* before the start; it is admin-locked (POST /admin/suspend has run) or   *)
(* not.  All servers belong to the hosting account u1.                     *)
(***************************************************************************)
ExpiryChoices ==
    {2, 1 - AUTO_DELETE_AFTER_DAYS * Day, 2 - AUTO_DELETE_AFTER_DAYS * Day}

InitSub(sid, owner, ownerId, exp, suspendBy) ==
    [ id |-> <<"ORDER", sid>>, server_id |-> sid, owner_id |-> ownerId,
      username |-> owner, days |-> 1, expires_at |-> exp, suspend_by |-> suspendBy ]

\* the persisted settings are the defaults and are cached (GET / has been
\* served); no purchase request in flight
InitShopQuiet ==
    /\ suspendFailed = {}
    /\ settings = ConfigSettings
    /\ settingsCache = <<ConfigSettings>>
    /\ qris = QrIdle

\* nothing in flight, nothing recorded
InitQuiet ==
    /\ gateway = [o \in Orders |-> "pending"]
    /\ sw = SwIdle
    /\ swLog = <<>>
    /\ autoSuspended = {}
    /\ dp = DpNone
    /\ rc = RcIdle
    /\ procs = [p \in Procs |-> PIdle]
    /\ made = MadeNone
    /\ InitShopQuiet

InitSweep ==
    /\ now = 0
    /\ \E exp \in [1..MaxSubs -> ExpiryChoices], lock \in [1..MaxSubs -> BOOLEAN] :
         /\ store = [sid \in 1..MaxSubs |->
                       InitSub(sid, "u1", NoUser, exp[sid],
                               IF lock[sid] THEN "admin" ELSE "none")]
         /\ rServers = [sid \in 1..MaxSubs |->
                          [owner |-> "u1", suspended |-> lock[sid], created_at |-> 0]]
    /\ rUsers = {"u1"}
    /\ nextSid = MaxSubs + 1
    /\ panelsStorage = <<>>
    /\ InitQuiet

NextSweep ==
    \/ TickStart
    \/ SweepRecord
    \/ SweepSuspendDone
    \/ SweepDelete
    \/ SweepSave
    \/ TickReturn
    \/ AdvanceTime

SpecSweep == InitSweep /\ [][NextSweep]_vars

(***************************************************************************)
(* SpecDel: deprovisioning by the sweeper and by the admin delete route.   *)
(* All Subscriptions are auto-suspended and past the delete threshold;     *)
(* a server belongs to the account u1 or to the administrator root, and    *)
(* its Subscription records the owner id (an imported one) or not.  The    *)
(* administrator's delete requests are served between two ticks.           *)
(***************************************************************************)
InitDel ==
    /\ now = 1
    /\ \E owner \in [1..MaxSubs -> {"u1", "root"}], known \in [1..MaxSubs -> BOOLEAN] :
         /\ store = [sid \in 1..MaxSubs |->
                       InitSub(sid, owner[sid], IF known[sid] THEN owner[sid] ELSE NoUser,
                               1 - AUTO_DELETE_AFTER_DAYS * Day, "auto")]
         /\ rServers = [sid \in 1..MaxSubs |->
                          [owner |-> owner[sid], suspended |-> TRUE, created_at |-> 0]]
    /\ rUsers = Users
    /\ nextSid = MaxSubs + 1
    /\ panelsStorage = <<>>
    /\ InitQuiet

AdminDeleteBetweenTicks(serverId) ==
    /\ sw.pc = "idle"
    /\ AdminDeletePanel(serverId)

NextDel ==
    \/ TickStart
    \/ SweepRecord
    \/ SweepSuspendDone
    \/ SweepDelete
    \/ SweepSave
    \/ TickReturn
    \/ \E serverId \in 1..MaxSubs : AdminDeleteBetweenTicks(serverId)

SpecDel == InitDel /\ [][NextDel]_vars

(***************************************************************************)
(* SpecRecon: GET /admin over MaxSubs Subscriptions of servers 1..MaxSubs  *)
(* and one more remote server that has no Subscription.  A Subscription    *)
(* expires one or two time units after the start; its suspend_by and the   *)
(* remote suspend flag of its server are independent.  The server of the   *)
(* first Subscription may be gone from the control-plane.                  *)
(***************************************************************************)
InitRecon ==
    /\ now = 0
    /\ \E exp \in [1..MaxSubs -> {1, 2}],
          by \in [1..MaxSubs -> {"none", "admin", "auto"}],
          susp \in [1..(MaxSubs + 1) -> BOOLEAN],
          first \in {1, 2} :
         /\ first = 2 => ~susp[1]
         /\ store = [sid \in 1..MaxSubs |-> InitSub(sid, "u1", NoUser, exp[sid], by[sid])]
         /\ rServers = [sid \in first..(MaxSubs + 1) |->
                          [owner |-> IF sid <= MaxSubs THEN "u1" ELSE "u2",
                           suspended |-> susp[sid], created_at |-> 0]]
    /\ rUsers = Users
    /\ nextSid = MaxSubs + 2
    /\ panelsStorage = <<>>
    /\ InitQuiet

NextRecon ==
    \/ ReconLoad
    \/ ReconFetch
    \/ ReconSave
    \/ ReconRender
    \/ AdvanceTime

SpecRecon == InitRecon /\ [][NextRecon]_vars

(***************************************************************************)
(* SpecProv: the orders 1..MaxOrders of the cache are paid and             *)
(* provisioned by check-payment, manual-check and force-create-panel       *)
(* requests, the administrator creates panels, and GET /admin reconciles,  *)
(* over an empty Subscription list and a control-plane without servers.    *)
(***************************************************************************)
InitProv ==
    /\ now = 0
    /\ store = <<>>
    /\ rServers = <<>>
    /\ rUsers = {"root"}
    /\ nextSid = 1
    /\ \E name \in [Orders -> {"u1", "u2"}] :
         /\ name[1] = "u1"
         /\ panelsStorage = [o \in Orders |->
                               [ key |-> OrderKey(o), obj |-> 0, type |-> "new",
                                 server_id |-> 0, product_id |-> "panel-1gb",
                                 product_name |-> Panel1GB, username |-> name[o],
                                 days |-> 1, status |-> "pending",
                                 panel_data |-> <<>>, panel_error |-> "none" ]]
    /\ InitQuiet

NextProv ==
    \/ \E o \in Orders : GatewayCompletes(o)
    \/ \E p \in Procs, o \in Orders : CheckPayment(p, o)
    \/ \E p \in Procs, o \in Orders : ManualCheck(p, o)
    \/ \E p \in Procs, o \in Orders : ForceCreatePanel(p, o)
    \/ \E p \in Procs : AdminCreatePanel(p, "u2")
    \/ \E p \in Procs : HandlerCatch(p)
    \/ \E p \in Procs : ProvPreCheck(p)
    \/ \E p \in Procs : ProvCreateUser(p)
    \/ \E p \in Procs : ProvCreateServer(p)
    \/ \E p \in Procs : PersistLoad(p)
    \/ \E p \in Procs : PersistSave(p)
    \/ ReconLoad
    \/ ReconFetch
    \/ ReconSave
    \/ ReconRender

SpecProv == InitProv /\ [][NextProv]_vars

(***************************************************************************)
(* SpecRenew: renewal orders of the account u1 are paid and served by      *)
(* check-payment and manual-check requests, and the administrator adds     *)
(* time, over MaxSubs Subscriptions of servers 1..MaxSubs; the first       *)
(* belongs to u1.  A Subscription expired a time unit before the start     *)
(* (and was suspended by the sweeper) or expires a time unit after it.     *)
(* The client polls one request at a time, and so does the administrator;  *)
(* a poll and an add-time request may be in flight together.               *)
(***************************************************************************)
InitRenew ==
    /\ now = 1
    /\ \E expired \in [1..MaxSubs -> BOOLEAN] :
         /\ store = [sid \in 1..MaxSubs |->
                       InitSub(sid, IF sid = 1 THEN "u1" ELSE "u2", NoUser,
                               IF expired[sid] THEN 0 ELSE 2,
                               IF expired[sid] THEN "auto" ELSE "none")]
         /\ rServers = [sid \in 1..MaxSubs |->
                          [owner |-> IF sid = 1 THEN "u1" ELSE "u2",
                           suspended |-> expired[sid], created_at |-> 0]]
    /\ rUsers = Users
    /\ nextSid = MaxSubs + 1
    /\ panelsStorage = [o \in Orders |->
                          [ key |-> OrderKey(o), obj |-> 0, type |-> "renewal",
                            server_id |-> 0, product_id |-> "panel-1gb",
                            product_name |-> Panel1GB, username |-> "u1", days |-> 1,
                            status |-> "pending", panel_data |-> <<>>,
                            panel_error |-> "none" ]]
    /\ InitQuiet

NoPollInFlight == \A q \in Procs : procs[q].kind \notin {"check", "manual"}

PollCheckPayment(p, o) ==
    /\ NoPollInFlight
    /\ CheckPayment(p, o)

PollManualCheck(p, o) ==
    /\ NoPollInFlight
    /\ ManualCheck(p, o)

AdminAddTime(p, idserver, addDays) ==
    /\ \A q \in Procs : procs[q].kind # "addtime"
    /\ AddTimeLoad(p, idserver, addDays)

NextRenew ==
    \/ \E o \in Orders : GatewayCompletes(o)
    \/ \E p \in Procs, o \in Orders : PollCheckPayment(p, o)
    \/ \E p \in Procs, o \in Orders : PollManualCheck(p, o)
    \/ \E p \in Procs : HandlerCatch(p)
    \/ \E p \in Procs : RenewLoad(p)
    \/ \E p \in Procs : RenewCompute(p)
    \/ \E p \in Procs : RenewSave(p)
    \/ \E p \in Procs : RenewUnsuspend(p)
    \/ \E p \in Procs : PersistLoad(p)
    \/ \E p \in Procs : PersistSave(p)
    \/ \E p \in Procs, idserver \in 1..MaxSubs, addDays \in 1..MaxAddDays :
          AdminAddTime(p, idserver, addDays)
    \/ \E p \in Procs : AddTimeSave(p)
    \/ \E p \in Procs : AddTimeUnsuspend(p)
    \/ AdvanceTime

SpecRenew == InitRenew /\ [][NextRenew]_vars

(***************************************************************************)
(* SpecOrder: the orders of the cache over their whole life: create-qris   *)
(* may be called again for an order_id, the gateway completes the          *)
(* transaction, and check-payment, manual-check and force-create-panel     *)
(* requests provision the order.                                           *)
(***************************************************************************)
NextOrder ==
    \/ \E o \in Orders : CreateQris(o)
    \/ \E o \in Orders : GatewayCompletes(o)
    \/ \E p \in Procs, o \in Orders : CheckPayment(p, o)
    \/ \E p \in Procs, o \in Orders : ManualCheck(p, o)
    \/ \E p \in Procs, o \in Orders : ForceCreatePanel(p, o)
    \/ \E p \in Procs : HandlerCatch(p)
    \/ \E p \in Procs : ProvPreCheck(p)
    \/ \E p \in Procs : ProvCreateUser(p)
    \/ \E p \in Procs : ProvCreateServer(p)
    \/ \E p \in Procs : PersistLoad(p)
    \/ \E p \in Procs : PersistSave(p)

SpecOrder == InitProv /\ [][NextOrder]_vars

(***************************************************************************)
(* SpecRenewSeq: MaxRenewals renewal orders of the account u1, each for    *)
(* one or more days, are paid and served one after the other by            *)
(* check-payment and manual-check requests while the clock advances, over  *)
(* the Subscriptions of SpecRenew.                                         *)
(***************************************************************************)
RenewalOrders == 1..MaxRenewals

InitRenewSeq ==
    /\ now = 1
    /\ \E expired \in [1..MaxSubs -> BOOLEAN] :
         /\ store = [sid \in 1..MaxSubs |->
                       InitSub(sid, IF sid = 1 THEN "u1" ELSE "u2", NoUser,
                               IF expired[sid] THEN 0 ELSE 2,
                               IF expired[sid] THEN "auto" ELSE "none")]
         /\ rServers = [sid \in 1..MaxSubs |->
                          [owner |-> IF sid = 1 THEN "u1" ELSE "u2",
                           suspended |-> expired[sid], created_at |-> 0]]
    /\ rUsers = Users
    /\ nextSid = MaxSubs + 1
    /\ \E days \in [RenewalOrders -> 1..MaxAddDays] :
         panelsStorage = [o \in RenewalOrders |->
                            [ key |-> OrderKey(o), obj |-> 0, type |-> "renewal",
                              server_id |-> 0, product_id |-> "panel-1gb",
                              product_name |-> Panel1GB, username |-> "u1",
                              days |-> days[o],
                              status |-> "pending", panel_data |-> <<>>,
                              panel_error |-> "none" ]]
    /\ gateway = [o \in RenewalOrders |-> "pending"]
    /\ sw = SwIdle
    /\ swLog = <<>>
    /\ autoSuspended = {}
    /\ dp = DpNone
    /\ rc = RcIdle
    /\ procs = [p \in Procs |-> PIdle]
    /\ made = MadeNone
    /\ InitShopQuiet

NextRenewSeq ==
    \/ \E o \in RenewalOrders : GatewayCompletes(o)
    \/ \E p \in Procs, o \in RenewalOrders : PollCheckPayment(p, o)
    \/ \E p \in Procs, o \in RenewalOrders : PollManualCheck(p, o)
    \/ \E p \in Procs : HandlerCatch(p)
    \/ \E p \in Procs : RenewLoad(p)
    \/ \E p \in Procs : RenewCompute(p)
    \/ \E p \in Procs : RenewSave(p)
    \/ \E p \in Procs : RenewUnsuspend(p)
    \/ \E p \in Procs : PersistLoad(p)
    \/ \E p \in Procs : PersistSave(p)
    \/ AdvanceTime

SpecRenewSeq == InitRenewSeq /\ [][NextRenewSeq]_vars

(***************************************************************************)
(* SpecAdmin: the administrator adds time and reduces time, by any number  *)
(* of days up to MaxAddDays and MaxDelDays either way, and saves settings, *)
(* over the Subscriptions of SpecRenew.  The persisted settings are the    *)
(* defaults or settings saved earlier, and they are cached or not.  The    *)
(* administrator sends a request after the one before it was answered; the *)
(* days and the expiry of a record stay within MaxTotalDays days of the    *)
(* start.                                                                  *)
(***************************************************************************)
InitAdmin ==
    /\ now = 1
    /\ \E expired \in [1..MaxSubs -> BOOLEAN] :
         /\ store = [sid \in 1..MaxSubs |->
                       InitSub(sid, IF sid = 1 THEN "u1" ELSE "u2", NoUser,
                               IF expired[sid] THEN 0 ELSE 2,
                               IF expired[sid] THEN "auto" ELSE "none")]
         /\ rServers = [sid \in 1..MaxSubs |->
                          [owner |-> IF sid = 1 THEN "u1" ELSE "u2",
                           suspended |-> expired[sid], created_at |-> 0]]
    /\ rUsers = Users
    /\ nextSid = MaxSubs + 1
    /\ panelsStorage = <<>>
    /\ gateway = [o \in Orders |-> "pending"]
    /\ sw = SwIdle
    /\ swLog = <<>>
    /\ autoSuspended = {}
    /\ dp = DpNone
    /\ rc = RcIdle
    /\ procs = [p \in Procs |-> PIdle]
    /\ made = MadeNone
    /\ suspendFailed = {}
    /\ settings \in SettingsValues
    /\ settingsCache \in {NoCache, <<settings>>}
    /\ qris = QrIdle

NoneInFlight == \A q \in Procs : procs[q].pc = "idle"

AdminAddAnyTime(p, idserver, addDays) ==
    /\ NoneInFlight
    /\ IndexOfServer(store, idserver) # 0
    /\ store[IndexOfServer(store, idserver)].days + addDays >= -MaxTotalDays
    /\ AddTimeLoad(p, idserver, addDays)

AdminDelTime(p, idserver, delDays) ==
    /\ NoneInFlight
    /\ IndexOfServer(store, idserver) # 0
    /\ LET srv == store[IndexOfServer(store, idserver)]
       IN  /\ srv.days - delDays <= MaxTotalDays
           /\ srv.expires_at - delDays * Day >= -MaxTotalDays * Day
           /\ srv.expires_at - delDays * Day <= MaxTime + MaxTotalDays * Day
    /\ DelTimeLoad(p, idserver, delDays)

AdminSaveSettings(p, newSettings) ==
    /\ NoneInFlight
    /\ SettingsSaveStart(p, newSettings)

NextAdmin ==
    \/ \E p \in Procs, idserver \in 1..MaxAdminSubs, addDays \in (-MaxAddDays)..MaxAddDays :
          AdminAddAnyTime(p, idserver, addDays)
    \/ \E p \in Procs : AddTimeSave(p)
    \/ \E p \in Procs : AddTimeUnsuspend(p)
    \/ \E p \in Procs, idserver \in 1..MaxAdminSubs, delDays \in (-MaxDelDays)..MaxDelDays :
          AdminDelTime(p, idserver, delDays)
    \/ \E p \in Procs : DelTimeSave(p)
    \/ \E p \in Procs, newSettings \in SettingsValues : AdminSaveSettings(p, newSettings)
    \/ \E p \in Procs : SettingsFetched(p)
    \/ \E p \in Procs : SettingsPut(p)

SpecAdmin == InitAdmin /\ [][NextAdmin]_vars

(***************************************************************************)
(* SpecShop: purchase requests for the cheapest tier, the dearest tier and *)
(* a product validatePrice does not know, for some numbers of days up to   *)
(* MaxDays, with or without an amount and without a product_name.  The     *)
(* persisted settings are the defaults or settings saved earlier, cached   *)
(* or not.  An order_id is requested again at most MaxQris times.          *)
(***************************************************************************)
ShopProducts == {"panel-1gb", "panel-premium", UnknownProductId}

InitShop ==
    /\ now = 0
    /\ store = <<>>
    /\ rServers = <<>>
    /\ rUsers = {"root"}
    /\ nextSid = 1
    /\ panelsStorage = <<>>
    /\ gateway = [o \in Orders |-> "none"]
    /\ sw = SwIdle
    /\ swLog = <<>>
    /\ autoSuspended = {}
    /\ dp = DpNone
    /\ rc = RcIdle
    /\ procs = [p \in Procs |-> PIdle]
    /\ made = MadeNone
    /\ suspendFailed = {}
    /\ settings \in SettingsValues
    /\ settingsCache \in {NoCache, <<settings>>}
    /\ qris = QrIdle

PurchaseRequest(order_id, product_id, days, amount) ==
    /\ HasOrder(panelsStorage, OrderKey(order_id))
         => OrderOf(panelsStorage, OrderKey(order_id)).obj < MaxQris
    /\ ValidatePrice(order_id, product_id, days, amount)

NextShop ==
    \/ \E order_id \in Orders, product_id \in ShopProducts,
          days \in RequestDays, amount \in RequestAmounts :
          PurchaseRequest(order_id, product_id, days, amount)
    \/ CreateQrisGateway(NoName)

SpecShop == InitShop /\ [][NextShop]_vars

(***************************************************************************)
(* SpecOverlap: one sweeper tick, with the administrator's add-time and    *)
(* suspend requests for the first MaxAdminSubs Subscriptions served        *)
(* before, while and after the tick is in flight.  Each of the MaxSubs     *)
(* Subscriptions has no suspend_by and expired just before the start or    *)
(* AUTO_DELETE_AFTER_DAYS days before it.  One request is in flight at a   *)
(* time.                                                                   *)
(***************************************************************************)
InitOverlap ==
    /\ now = 1
    /\ \E exp \in [1..MaxSubs -> {0, 1 - AUTO_DELETE_AFTER_DAYS * Day}] :
         store = [sid \in 1..MaxSubs |-> InitSub(sid, "u1", NoUser, exp[sid], "none")]
    /\ rServers = [sid \in 1..MaxSubs |->
                     [owner |-> "u1", suspended |-> FALSE, created_at |-> 0]]
    /\ rUsers = {"u1"}
    /\ nextSid = MaxSubs + 1
    /\ panelsStorage = <<>>
    /\ InitQuiet

OverlapAddTime(p, idserver, addDays) ==
    /\ NoneInFlight
    /\ AddTimeLoad(p, idserver, addDays)

OverlapSuspend(p, idserver) ==
    /\ NoneInFlight
    /\ AdminSuspendCall(p, idserver)

NextOverlap ==
    \/ TickStart
    \/ SweepRecord
    \/ SweepSuspendDone
    \/ SweepDelete
    \/ SweepSave
    \/ \E p \in Procs, idserver \in 1..MaxAdminSubs, addDays \in 1..MaxAddDays :
          OverlapAddTime(p, idserver, addDays)
    \/ \E p \in Procs : AddTimeSave(p)
    \/ \E p \in Procs : AddTimeUnsuspend(p)
    \/ \E p \in Procs, idserver \in 1..MaxAdminSubs : OverlapSuspend(p, idserver)
    \/ \E p \in Procs : AdminSuspendLoad(p)
    \/ \E p \in Procs : AdminSuspendSave(p)

SpecOverlap == InitOverlap /\ [][NextOverlap]_vars

(***************************************************************************)
(* SpecPolls: the renewal order of SpecRenew once the gateway reports      *)
(* 'completed', polled by check-payment and manual-check requests that may *)
(* be in flight together (the page polls on a timer and the customer may   *)
(* press the manual check at any moment).                                  *)
(***************************************************************************)
NextPolls ==
    \/ \E o \in Orders : GatewayCompletes(o)
    \/ \E p \in Procs, o \in Orders : CheckPayment(p, o)
    \/ \E p \in Procs, o \in Orders : ManualCheck(p, o)
    \/ \E p \in Procs : HandlerCatch(p)
    \/ \E p \in Procs : RenewLoad(p)
    \/ \E p \in Procs : RenewCompute(p)
    \/ \E p \in Procs : RenewSave(p)
    \/ \E p \in Procs : RenewUnsuspend(p)
    \/ \E p \in Procs : PersistLoad(p)
    \/ \E p \in Procs : PersistSave(p)

SpecPolls == InitRenew /\ [][NextPolls]_vars

(***************************************************************************)
(* SpecTier: a purchase from the request for the payment code to the       *)
(* server.  The request names any product_id validatePrice knows and any   *)
(* key of the specs table as product_name, or no product_name; it is for   *)
(* 30 days and states no amount.  The gateway completes the transaction    *)
(* and check-payment requests provision the order.                         *)
(***************************************************************************)
RequestNames == SpecKeys \cup {NoName}

InitTier ==
    /\ now = 0
    /\ store = <<>>
    /\ rServers = <<>>
    /\ rUsers = {"root"}
    /\ nextSid = 1
    /\ panelsStorage = <<>>
    /\ InitQuiet

NextTier ==
    \/ \E order_id \in Orders, product_id \in ProductIds :
          PurchaseRequest(order_id, product_id, 30, NoAmount)
    \/ \E product_name \in RequestNames : CreateQrisGateway(product_name)
    \/ \E o \in Orders : GatewayCompletes(o)
    \/ \E p \in Procs, o \in Orders : PollCheckPayment(p, o)
    \/ \E p \in Procs : HandlerCatch(p)
    \/ \E p \in Procs : ProvPreCheck(p)
    \/ \E p \in Procs : ProvCreateUser(p)
    \/ \E p \in Procs : ProvCreateServer(p)
    \/ \E p \in Procs : PersistLoad(p)
    \/ \E p \in Procs : PersistSave(p)

SpecTier == InitTier /\ [][NextTier]_vars

(***************************************************************************)
(* SpecFairSweep: the sweeper alone, tick after tick at one instant, over  *)
(* Subscriptions that expired just before the start or                     *)
(* AUTO_DELETE_AFTER_DAYS days before it, admin-locked or not.  setInterval*)
(* keeps the ticks coming (weak fairness of every step of a tick); a read, *)
(* a suspend call, the calls of a deprovisioning and a write that are      *)
(* tried again and again succeed at some point (strong fairness of each    *)
(* success).                                                               *)
(***************************************************************************)
InitFairSweep ==
    /\ now = 1
    /\ \E exp \in [1..MaxSubs -> {0, 1 - AUTO_DELETE_AFTER_DAYS * Day}],
          lock \in [1..MaxSubs -> {"none", "admin"}] :
         /\ store = [sid \in 1..MaxSubs |->
                       InitSub(sid, "u1", NoUser, exp[sid], lock[sid])]
         /\ rServers = [sid \in 1..MaxSubs |->
                          [owner |-> "u1", suspended |-> lock[sid] = "admin",
                           created_at |-> 0]]
    /\ rUsers = {"u1"}
    /\ nextSid = MaxSubs + 1
    /\ panelsStorage = <<>>
    /\ InitQuiet

NextFairSweep ==
    \/ TickStart
    \/ SweepRecord
    \/ SweepSuspendDone
    \/ SweepDelete
    \/ SweepSave
    \/ TickReturn

\* the read of the tick answered the document
ReadSucceeds == TickStart /\ sw'.read = store

\* the suspend call for server sid succeeded
SuspendSucceeds(sid) ==
    /\ SweepRecord
    /\ sw.db[sw.i].server_id = sid
    /\ sw'.db[sw.i].suspend_by = "auto"

\* every call of the deprovisioning of server sid succeeded
DeleteSucceeds(sid) ==
    /\ SweepDelete
    /\ Head(sw.queue).serverId = sid
    /\ sid \notin DOMAIN rServers'

\* the write of the tick went through
WriteSucceeds == SweepSave /\ sw.dbChanged /\ store' = sw.db

SpecFairSweep ==
    /\ InitFairSweep
    /\ [][NextFairSweep]_vars
    /\ WF_vars(NextFairSweep)
    /\ SF_vars(ReadSucceeds)
    /\ SF_vars(WriteSucceeds)
    /\ \A sid \in 1..MaxSubs : SF_vars(SuspendSucceeds(sid))
    /\ \A sid \in 1..MaxSubs : SF_vars(DeleteSucceeds(sid))

(***************************************************************************)
(* Claims about provisioning, under SpecProv.                              *)
(***************************************************************************)
\* per order at most one account and at most one server created remotely
CreatedAtMostOnce ==
    \A key \in {m.order : m \in made.accounts} \cup {m.order : m \in made.servers} :
        /\ Cardinality({m \in made.accounts : m.order = key}) <= 1
        /\ Cardinality({m \in made.servers : m.order = key}) <= 1

\* C1: for one order, however its check-payment, manual-check and
\* force-create-panel requests interleave, at most one account and at most one
\* server are created remotely, and a provisioning that finds the username
\* registered (by the username check or by the rejection of the create call)
\* fails with the duplicate-user error, having created nothing.
C1_ProvisionedOnce ==
    /\ CreatedAtMostOnce
    /\ \A o \in Orders, p \in Procs :
           /\ gateway[o] = "completed"
           /\ procs[p].order = OrderKey(o)
           /\ procs[p].pc = "catch"
           /\ procs[p].cause = "username_exists"
           => procs[p].error = "DuplicateUser" /\ procs[p].pd = <<>>

\* C2: the persisted list holds at most one Subscription per server_id.
C2_OneSubscriptionPerServer ==
    \A i, j \in DOMAIN store : store[i].server_id = store[j].server_id => i = j

(***************************************************************************)
(* Claims about the sweeper, under SpecSweep.                              *)
(***************************************************************************)
\* the events of the tick in flight
TickEvents(op) == {k \in DOMAIN swLog : swLog[k].op = op}

IdsOf(list) == {list[i].id : i \in DOMAIN list}

\* C3: a sweeper tick issues no suspend and no deprovisioning call for a
\* Subscription it read with suspend_by = 'admin', and that Subscription stays
\* unchanged in the tick's list and in the persisted list, however long ago it
\* expired.
C3_AdminLockedUntouched ==
    \A i \in DOMAIN sw.read :
        sw.read[i].suspend_by = "admin" =>
            /\ \A k \in TickEvents("suspend") \cup TickEvents("deprovision") :
                   swLog[k].idx # i /\ swLog[k].id # sw.read[i].id
            /\ \A q \in Range(sw.panelsToDelete) : q.index # i
            /\ sw.read[i] \in Range(sw.db)
            /\ sw.read[i] \in Range(store)

\* a finished tick that wrote, having read an admin-locked Subscription past the
\* delete threshold and having deprovisioned another one
C3_Witness ==
    /\ sw.pc = "done"
    /\ \E k \in TickEvents("write") : swLog[k].ok
    /\ TickEvents("deprovision") # {}
    /\ \E i \in DOMAIN sw.read :
           /\ sw.read[i].suspend_by = "admin"
           /\ (sw.now - sw.read[i].expires_at) \div Day >= AUTO_DELETE_AFTER_DAYS

\* C4: once a tick's suspend call for a Subscription succeeded (and the tick set
\* suspend_by to 'auto'), no later tick issues a suspend call for that
\* Subscription.  SpecSweep has no renewal and no unsuspend.
C4_SuspendedOnce ==
    \A k \in TickEvents("suspend") : swLog[k].id \notin autoSuspended

\* C5: a tick issues a suspend call only for a Subscription whose expires_at is
\* before the tick's now, and queues for deletion only a Subscription whose whole
\* days past expiry are at least AUTO_DELETE_AFTER_DAYS.
C5_OnlyPastExpiry ==
    /\ \A k \in TickEvents("suspend") : sw.read[swLog[k].idx].expires_at < sw.now
    /\ \A q \in Range(sw.panelsToDelete) :
           (sw.now - sw.read[q.index].expires_at) \div Day >= AUTO_DELETE_AFTER_DAYS
    /\ \A k \in TickEvents("deprovision") :
           (sw.now - sw.read[swLog[k].idx].expires_at) \div Day >= AUTO_DELETE_AFTER_DAYS

\* a tick that suspended one Subscription, queued one exactly at the threshold and
\* left one that is a time unit short of it
C5_Witness ==
    /\ TickEvents("suspend") # {}
    /\ \E q \in Range(sw.panelsToDelete) :
           sw.now - sw.read[q.index].expires_at = AUTO_DELETE_AFTER_DAYS * Day
    /\ \E i \in DOMAIN sw.read :
           /\ sw.now - sw.read[i].expires_at = AUTO_DELETE_AFTER_DAYS * Day - 1
           /\ sw.i > i
           /\ \A q \in Range(sw.panelsToDelete) : q.index # i

\* C6: in a tick the Subscriptions removed from the list are exactly the queued
\* ones whose deprovisioning reported success, a queued Subscription whose
\* deprovisioning failed (its server is left on the control-plane) stays in the
\* list, and no Subscription that was not queued is removed.
C6_RemovedExactlySucceeded ==
    LET removed == IdsOf(sw.read) \ IdsOf(sw.db)
    IN  /\ removed = {swLog[k].id : k \in {j \in TickEvents("deprovision") : swLog[j].ok}}
        /\ \A k \in TickEvents("deprovision") :
               swLog[k].remote = "left" => swLog[k].id \in IdsOf(sw.db)
        /\ removed \subseteq {sw.read[q.index].id : q \in Range(sw.panelsToDelete)}

(***************************************************************************)
(* Claims about deprovisioning, under SpecDel.                             *)
(***************************************************************************)
\* C7: a deprovisioning reports success only if the remote server was deleted or
\* was already absent, and the local Subscription is removed.
C7_SuccessOnlyIfDeleted ==
    dp.reported => dp.remote \in {"deleted", "absent"} /\ dp.localRemoved

\* C8: a deprovisioning whose fetch of the owner id failed still issues the
\* delete call for the remote server.
C8_DeleteDespiteOwnerFetch ==
    dp.by # "none" /\ ~dp.infoOk => dp.delIssued

\* C9: a deprovisioning issues the deletion of the owner account only if the
\* owner is not an administrator and owns no server other than the one being
\* deleted; the administrator accounts stay registered, and an account that is
\* deleted owns no server.
C9_OwnerCleanupGuard ==
    /\ dp.userDelIssued => ~dp.ownerRootAdmin /\ dp.ownerRemaining = {}
    /\ dp.userDeleted => dp.userDelIssued /\ dp.ownerId \notin rUsers
    /\ RootAdmins \subseteq rUsers
    /\ \A s \in DOMAIN rServers : rServers[s].owner \in rUsers

\* the admin route deleted a server and then its owner's account, the sweeper
\* having deprovisioned an administrator's server before
C9_Witness ==
    /\ dp.by = "route"
    /\ dp.remote = "deleted"
    /\ dp.userDeleted
    /\ dp.ownerId \notin rUsers
    /\ \E j \in DOMAIN store :
           /\ store[j].username \in RootAdmins
           /\ store[j].server_id \notin DOMAIN rServers

(***************************************************************************)
(* Claims about the reconciler, under SpecRecon.                           *)
(***************************************************************************)
\* the least d with expires_at - now <= d days
WholeDaysLeft(expiresAt, tnow) ==
    CHOOSE d \in -(MaxTime + 1)..(defaultDays + MaxTime + 1) :
        (d - 1) * Day < expiresAt - tnow /\ expiresAt - tnow <= d * Day

\* C10: the display status of a server is a function of its remote suspend flag,
\* the suspend_by and the expires_at of its Subscription and now: admin_locked if
\* suspended remotely and suspend_by is 'admin', else suspended if suspended
\* remotely, else expired_running if ceil((expires_at - now) / 1 day) <= 0, else
\* active.
C10_StatusDerivation ==
    \A k \in DOMAIN rc.enriched :
        LET e == rc.enriched[k]
            rec == rc.storedPanels[IndexOfServer(rc.storedPanels, e.serverId)]
        IN  /\ e.suspended = rServers[e.serverId].suspended
            /\ e.suspend_by = rec.suspend_by
            /\ e.expires_at = rec.expires_at
            /\ e.statusCode =
                 CASE e.suspended /\ e.suspend_by = "admin" -> "admin_locked"
                   [] e.suspended /\ e.suspend_by # "admin" -> "suspended"
                   [] ~e.suspended /\ WholeDaysLeft(e.expires_at, e.now) <= 0
                        -> "expired_running"
                   [] OTHER -> "active"

\* a view with an expired server that is admin_locked, a suspended one that is not
\* expired, and a running one that expired within the last day
C10_Witness ==
    /\ rc.pc = "render"
    /\ \E k \in DOMAIN rc.enriched :
           /\ rc.enriched[k].statusCode = "admin_locked"
           /\ rc.enriched[k].expires_at < rc.enriched[k].now
    /\ \E k \in DOMAIN rc.enriched :
           /\ rc.enriched[k].statusCode = "suspended"
           /\ rc.enriched[k].expires_at > rc.enriched[k].now
    /\ \E k \in DOMAIN rc.enriched :
           /\ rc.enriched[k].statusCode = "expired_running"
           /\ rc.enriched[k].now - rc.enriched[k].expires_at = 1

\* the statuses of a suspended server
SuspendedStatus(statusCode) == statusCode \in {"admin_locked", "suspended"}

\* C11: with the remote suspend flag, expires_at and now of a displayed server
\* held fixed, replacing suspend_by by 'admin', 'auto' or absent changes the
\* status at most between admin_locked and suspended: whether the status is a
\* suspended one or a non-suspended one stays the same.
C11_SuspendBySwap ==
    \A k \in DOMAIN rc.enriched :
        \A by \in {"admin", "auto", "none"} :
            LET e == rc.enriched[k]
                swapped == StatusCode(e.suspended, by,
                                      WholeDaysLeft(e.expires_at, e.now))
            IN  /\ SuspendedStatus(swapped) = SuspendedStatus(e.statusCode)
                /\ SuspendedStatus(swapped) = e.suspended
                /\ swapped # e.statusCode =>
                       {swapped, e.statusCode} = {"admin_locked", "suspended"}

\* a view with two suspended servers of the same expiry, one locked by the
\* administrator and one suspended by the sweeper, and a running server
C11_Witness ==
    /\ rc.pc = "render"
    /\ \E k, l \in DOMAIN rc.enriched :
           /\ rc.enriched[k].suspended /\ rc.enriched[l].suspended
           /\ rc.enriched[k].expires_at = rc.enriched[l].expires_at
           /\ rc.enriched[k].suspend_by = "admin"
           /\ rc.enriched[l].suspend_by = "auto"
           /\ rc.enriched[k].statusCode = "admin_locked"
           /\ rc.enriched[l].statusCode = "suspended"
    /\ \E k \in DOMAIN rc.enriched :
           /\ ~rc.enriched[k].suspended
           /\ rc.enriched[k].statusCode = "active"

\* the remote servers without a Subscription in the list the read was given
Missing == {s \in DOMAIN rServers : \A j \in DOMAIN rc.loaded : rc.loaded[j].server_id # s}

\* C12: an admin read whose fetch succeeded holds, for every remote server
\* without a Subscription in the list it loaded, exactly one synthetic
\* Subscription with days = 30 and expires_at = created_at + 30 days, and
\* nothing else new; it calls the persisted write once if there is such a
\* server and never otherwise.
C12_ImportOnce ==
    rc.fetched = "ok" =>
        /\ Len(rc.storedPanels) = Len(rc.loaded) + Cardinality(Missing)
        /\ \A j \in DOMAIN rc.loaded : rc.storedPanels[j] = rc.loaded[j]
        /\ \A s \in Missing :
               \E j \in DOMAIN rc.storedPanels :
                   /\ rc.storedPanels[j].server_id = s
                   /\ rc.storedPanels[j].id = <<"AUTO", s>>
                   /\ rc.storedPanels[j].days = 30
                   /\ rc.storedPanels[j].expires_at = rServers[s].created_at + 30 * Day
                   /\ \A i \in DOMAIN rc.storedPanels :
                          rc.storedPanels[i].server_id = s => i = j
        /\ rc.pc = "save" => Missing # {} /\ rc.writes = 0
        /\ rc.pc = "render" => rc.writes = IF Missing = {} THEN 0 ELSE 1

\* a read, some time after the server was created, that loaded a list without
\* the last remote server, imported it and wrote once
C12_Witness ==
    /\ rc.pc = "render"
    /\ rc.fetched = "ok"
    /\ rc.loaded # <<>>
    /\ Missing = {MaxSubs + 1}
    /\ rc.writes = 1
    /\ now > rServers[MaxSubs + 1].created_at
    /\ \E j \in DOMAIN store : store[j].id = <<"AUTO", MaxSubs + 1>>

\* C13: an admin read changes the persisted list only by appending records for
\* servers that had none: every Subscription of the list stays at its place
\* with the same fields.
C13_OnlyAppends ==
    [][ /\ \A j \in DOMAIN store : j \in DOMAIN store' /\ store'[j] = store[j]
        /\ \A j \in DOMAIN store' \ DOMAIN store :
               \A i \in DOMAIN store : store[i].server_id # store'[j].server_id ]_vars

\* C14: an admin read whose fetch of the remote servers failed goes on to the
\* response with the Subscriptions it loaded, an empty enriched list and
\* statistics of zero, and calls no persisted write.
C14_FetchFailureIsSoft ==
    rc.fetched = "failed" =>
        /\ rc.pc = "render"
        /\ rc.storedPanels = rc.loaded
        /\ rc.enriched = <<>>
        /\ rc.stats = [total |-> 0, active |-> 0, suspended |-> 0, expired |-> 0]
        /\ rc.writes = 0

\* a read that loaded the Subscriptions, whose fetch failed while a remote
\* server had no Subscription, and that is about to respond; the persisted list
\* is as it was loaded
C14_Witness ==
    /\ rc.fetched = "failed"
    /\ rc.pc = "render"
    /\ rc.loaded # <<>>
    /\ Missing # {}
    /\ store = rc.loaded

(***************************************************************************)
(* Claims about the orders, under SpecProv and SpecOrder.                  *)
(***************************************************************************)
AccountMadeFor(key) == \E m \in made.accounts : m.order = key
ServerMadeFor(key) == \E m \in made.servers : m.order = key

\* request p starts provisioning in this step
Starts(p) == procs[p].pc = "idle" /\ procs'[p].pc = "precheck"

\* C15: an order whose provisioning failed at the creation of the server, after
\* its hosting account was created, carries the error, and no check-payment or
\* manual-check request made afterwards runs provisioning for it again.
C15_NotRetriedByPolls ==
    [][ \A p \in Procs :
          Starts(p) /\ procs'[p].kind \in {"check", "manual"} =>
              LET ord == OrderOf(panelsStorage, procs'[p].order)
              IN  ~(/\ ord.panel_error # "none"
                    /\ AccountMadeFor(ord.key)
                    /\ ~ServerMadeFor(ord.key)) ]_vars

\* C16: a request holds the complete panel record of a server created for its
\* order when it loads and writes the persisted list; an order of the cache has
\* panel_data only if a server was created for it, and a persisted Subscription
\* of an order is that of a server created for that order.
C16_PersistedOnlyAfterSuccess ==
    /\ \A p \in Procs :
           procs[p].pc \in {"load", "save"} =>
               /\ procs[p].pd # <<>>
               /\ [order |-> procs[p].order, id |-> procs[p].pd[1].server_id]
                      \in made.servers
    /\ \A j \in DOMAIN panelsStorage :
           panelsStorage[j].panel_data # <<>> =>
               [order |-> panelsStorage[j].key,
                id |-> panelsStorage[j].panel_data[1].server_id] \in made.servers
    /\ \A j \in DOMAIN store :
           store[j].id[1] = "ORDER" =>
               [order |-> store[j].id, id |-> store[j].server_id] \in made.servers
    /\ \A p \in Procs :
           \A j \in DOMAIN procs[p].db :
               procs[p].db[j].id[1] = "ORDER" =>
                   [order |-> procs[p].db[j].id, id |-> procs[p].db[j].server_id]
                       \in made.servers

\* an order that failed once and was provisioned by a later request: it has the
\* error and the panel record, and its Subscription is persisted
C16_Witness ==
    \E j \in DOMAIN panelsStorage :
        /\ panelsStorage[j].key[1] = "ORDER"
        /\ panelsStorage[j].panel_error # "none"
        /\ panelsStorage[j].panel_data # <<>>
        /\ \E i \in DOMAIN store :
               /\ store[i].id = panelsStorage[j].key
               /\ store[i].server_id = panelsStorage[j].panel_data[1].server_id
               /\ store[i].expires_at = panelsStorage[j].panel_data[1].expires_at

\* C17: an order with status 'completed' and panel_data is changed by no later
\* operation: create-qris, check-payment, manual-check and force-create-panel
\* leave its fields as they are.  (A check-payment or manual-check request of
\* the order that is still in flight started before its completion.)
C17_CompletedOrderFrozen ==
    [][ \A j \in DOMAIN panelsStorage :
          panelsStorage[j].status = "completed" /\ panelsStorage[j].panel_data # <<>> =>
              \/ j \in DOMAIN panelsStorage' /\ panelsStorage'[j] = panelsStorage[j]
              \/ \E p \in Procs :
                     /\ procs'[p] # procs[p]
                     /\ procs[p].order = panelsStorage[j].key
                     /\ procs[p].kind \in {"check", "manual"} ]_vars

C19_StatusOnlyForward ==
    [][ \A j \in DOMAIN panelsStorage :
          panelsStorage[j].status = "completed" =>
              \A k \in DOMAIN panelsStorage' :
                  panelsStorage'[k].key = panelsStorage[j].key =>
                      panelsStorage'[k].status # "pending" ]_vars

(***************************************************************************)
(* Claims about renewal, under SpecRenew.                                  *)
(***************************************************************************)
\* request p computes a new expiry in this step
Extends(p) ==
    \/ procs[p].pc = "renewCompute" /\ procs'[p].pc = "renewSave"
    \/ procs[p].pc = "idle" /\ procs'[p].pc = "addSave"

\* C20: a renewal or an admin add-time of d days sets the expires_at of the
\* record to max(current expires_at, now) + d days: the new expiry is earlier
\* than neither the old expiry nor now, and starts from now for a Subscription
\* that has expired.  The current expires_at is the one the request loaded.
C20_ExpiryFromMax ==
    [][ \A p \in Procs :
          Extends(p) =>
              LET serverId == procs'[p].server_id
                  d == procs'[p].days
                  loaded == IF procs[p].pc = "idle" THEN store ELSE procs[p].db
                  old == loaded[IndexOfServer(loaded, serverId)].expires_at
                  new == procs'[p].db[IndexOfServer(procs'[p].db, serverId)].expires_at
              IN  /\ d >= 1
                  /\ new = (IF old >= now THEN old ELSE now) + d * Day
                  /\ new >= old + d * Day
                  /\ new >= now + d * Day
                  /\ old < now => new = now + d * Day ]_vars

\* a renewal of one day has extended a Subscription that has expired to one day
\* from now, and an add-time of two days has extended one that has not expired
\* to two days past its expiry; both are about to be written
C20_Witness ==
    \E p, q \in Procs :
        /\ procs[p].pc = "renewSave"
        /\ procs[q].pc = "addSave"
        /\ procs[p].days = 1
        /\ procs[q].days = 2
        /\ \E i \in DOMAIN store :
               /\ store[i].server_id = procs[p].server_id
               /\ store[i].expires_at < now
               /\ procs[p].db[i].expires_at = now + Day
        /\ \E i \in DOMAIN store :
               /\ store[i].server_id = procs[q].server_id
               /\ store[i].expires_at > now
               /\ procs[q].db[i].expires_at = store[i].expires_at + 2 * Day

C22_NoUnsuspendAfterFailedWrite ==
    [][ \A p \in Procs :
          /\ procs[p].pc = "renewSave" /\ store' # procs[p].db
                => procs'[p].pc # "renewUnsuspend"
          /\ procs[p].pc = "renewUnsuspend" /\ rServers' # rServers
                => \E i \in DOMAIN store :
                       /\ store[i].server_id = procs[p].server_id
                       /\ store[i].expires_at >=
                              procs[p].db[IndexOfServer(procs[p].db,
                                                        procs[p].server_id)].expires_at
      ]_vars

\* C23: when a renewal sends the remote unsuspend call, the persisted list
\* holds the record of its server with the expiry the renewal computed and
\* with suspend_by cleared; when the call is answered, with a failure as with
\* a success, the persisted list stays as it is and the renewal returns its
\* result: the order of the request is completed with the new expiry as
\* panel_data.
C23_PersistThenUnsuspend ==
    [][ \A p \in Procs :
          LET idx == IndexOfServer(procs[p].db, procs[p].server_id)
          IN  /\ procs[p].pc # "renewUnsuspend" /\ procs'[p].pc = "renewUnsuspend"
                    => /\ procs[p].pc = "renewSave"
                       /\ rServers' = rServers
                       /\ \E i \in DOMAIN store' :
                              /\ store'[i].server_id = procs[p].server_id
                              /\ store'[i].expires_at = procs[p].db[idx].expires_at
                              /\ store'[i].suspend_by = "none"
              /\ procs[p].pc = "renewUnsuspend" /\ procs'[p].pc # "renewUnsuspend"
                    => /\ store' = store
                       /\ procs'[p].pc \in {"idle", "load"}
                       /\ \A j \in DOMAIN panelsStorage :
                              /\ panelsStorage[j].key = procs[p].order
                              /\ panelsStorage[j].obj = procs[p].obj
                              => /\ panelsStorage'[j].status = "completed"
                                 /\ panelsStorage'[j].panel_data # <<>>
                                 /\ panelsStorage'[j].panel_data[1].new_expiry =
                                        procs[p].db[idx].expires_at ]_vars

\* the persisted list is no longer the one request p read: a record other than
\* the one p has changed differs from p's copy (the token of the document is
\* the hash of its content)
StaleRead(p) ==
    \/ Len(store) # Len(procs[p].db)
    \/ \E j \in DOMAIN store :
           /\ j \in DOMAIN procs[p].db
           /\ j # IndexOfServer(procs[p].db, procs[p].server_id)
           /\ store[j] # procs[p].db[j]

\* C24: a write carries the token of the document its request read, so the
\* write of a renewal or of an add-time whose read is stale, because another
\* request has written in between, fails: it leaves the persisted list as the
\* other request wrote it.
C24_StaleWriteFails ==
    [][ \A p \in Procs :
          /\ procs[p].pc \in {"renewSave", "addSave"}
          /\ procs'[p].pc # procs[p].pc
          /\ StaleRead(p)
          => store' = store ]_vars

(***************************************************************************)
(* Claims about the writes of the sweeper, under SpecSweep.                *)
(***************************************************************************)
\* the suspend calls and the deprovisionings of the tick that succeeded
TickMutations ==
    {k \in TickEvents("suspend") \cup TickEvents("deprovision") : swLog[k].ok}

\* C29: a tick issues at most one write; the write comes after every suspend
\* call and every deprovisioning of the tick; a finished tick has issued one
\* write if a suspend call or a deprovisioning of it succeeded and none
\* otherwise; and the list of the write holds all of the tick's mutations: a
\* write that took leaves the persisted list with suspend_by = 'auto' on every
\* record the tick suspended and without any record the tick deprovisioned.
C29_OneWritePerTick ==
    /\ Cardinality(TickEvents("write")) <= 1
    /\ \A k \in TickEvents("write") :
           /\ k = Len(swLog)
           /\ sw.pc = "done"
           /\ swLog[k].ok =>
                  /\ store = sw.db
                  /\ \A m \in TickMutations :
                         IF swLog[m].op = "deprovision"
                         THEN swLog[m].id \notin IdsOf(store)
                         ELSE \A i \in DOMAIN store :
                                  store[i].id = swLog[m].id => store[i].suspend_by = "auto"
    /\ sw.pc = "done" => (TickEvents("write") # {} <=> TickMutations # {})

\* a finished tick that suspended one Subscription and deprovisioned another
\* and then wrote once
C29_Witness ==
    /\ sw.pc = "done"
    /\ \E k \in TickEvents("write") : swLog[k].ok
    /\ \E k \in TickEvents("suspend"), m \in TickEvents("deprovision") :
           /\ swLog[k].ok
           /\ swLog[m].ok
           /\ swLog[k].id # swLog[m].id
           /\ swLog[k].id \in IdsOf(store)

\* C30: a suspend call of a tick that fails changes nothing: the record stays
\* in the tick's list as it was read, with its suspend_by, the tick's
\* dbChanged flag is not set for it, and the persisted list is not written.
\* A tick that reads a Subscription whose suspend call failed in the tick
\* before finds its suspend_by as it was and issues the suspend call again.
C30_FailedSuspendRetried ==
    [][ /\ \A k \in TickEvents("suspend") :
               ~swLog[k].ok =>
                   \A i \in DOMAIN sw.db :
                       sw.db[i].id = swLog[k].id => sw.db[i] = sw.read[swLog[k].idx]
        /\ sw.pc = "suspend" /\ sw'.pc = "suspend" /\ Len(swLog') > Len(swLog)
           /\ ~swLog'[Len(swLog')].ok
              => /\ sw'.db = sw.db
                 /\ sw'.dbChanged = sw.dbChanged
                 /\ store' = store
        /\ sw.pc = "suspend" /\ sw'.pc = "suspend" /\ sw'.i = sw.i + 1
           /\ sw.db[sw.i].id \in suspendFailed
              => /\ sw.db[sw.i].suspend_by = "none"
                 /\ Len(swLog') = Len(swLog) + 1
                 /\ swLog'[Len(swLog')].op = "suspend"
                 /\ swLog'[Len(swLog')].id = sw.db[sw.i].id ]_vars

\* a tick has issued the suspend call again, and with success, for a
\* Subscription whose suspend call failed in the tick before
C30_Witness ==
    \E k \in TickEvents("suspend") :
        /\ swLog[k].id \in suspendFailed
        /\ swLog[k].ok
        /\ \E i \in DOMAIN sw.db :
               sw.db[i].id = swLog[k].id /\ sw.db[i].suspend_by = "auto"


(***************************************************************************)
(* Claims about the settings and the administrator's requests, under       *)
(* SpecAdmin.                                                              *)
(***************************************************************************)
\* C27: the persisted Settings change only in the write of a settings-save
\* request; no other write to the persisted document changes them.
C27_SettingsOnlyBySettingsSave ==
    [][settings' # settings =>
         \E p \in Procs : /\ procs[p].pc = "settingsPut"
                          /\ procs'[p].pc = "idle"
                          /\ settings' = procs[p].newSettings[1]]_vars

\* C28: after any add-time or reduce-time request, with any integer number of
\* days, every persisted record has days >= 0.
C28_DaysNeverNegative ==
    \A i \in DOMAIN store : store[i].days \in Nat


(***************************************************************************)
(* Claims about the price of a purchase, under SpecShop.                   *)
(***************************************************************************)
\* the least integer >= n / d, for n >= 0 and d > 0
CeilOfQuotient(n, d) == (n + d - 1) \div d

\* C25: the calculated price for a tier and a number of days is
\* ceil((base price of the tier / 30) * days), and for 30 days it is the
\* tier's base price exactly, for every tier of the price table in use.
C25_PriceIsCeilOfProRata ==
    qris.product_id \in ProductIds =>
        /\ qris.calculatedPrice = CeilOfQuotient(qris.basePrice * qris.days, 30)
        /\ qris.days = 30 => qris.calculatedPrice = qris.basePrice

\* C26: a purchase request whose amount differs from the calculated price is
\* answered 400 with the expected value, and the step stores no order and
\* creates no gateway transaction; the request does not go on to the gateway.
C26_MismatchRejected ==
    [][(/\ qris.pc = "idle"
        /\ qris' # qris
        /\ qris'.amount # NoAmount
        /\ qris'.amount[1] # 10 * qris'.calculatedPrice)
       => /\ qris'.pc = "idle"
          /\ qris'.response # <<>>
          /\ qris'.response[1].status = 400
          /\ qris'.response[1].expected = qris'.calculatedPrice
          /\ UNCHANGED <<panelsStorage, gateway>>]_vars


(***************************************************************************)
(* Claims about the sweeper and the requests that overlap its ticks.       *)
(***************************************************************************)
\* the iteration of the suspend pass at hand looks at a Subscription that is
\* not admin-locked, has no suspend_by and expired at least
\* AUTO_DELETE_AFTER_DAYS whole days before the tick's time
LongExpiredUnsuspended ==
    /\ sw.pc = "suspend"
    /\ sw.i <= Len(sw.db)
    /\ sw.db[sw.i].suspend_by = "none"
    /\ sw.db[sw.i].expires_at < sw.now
    /\ DaysExpired(sw.now, sw.db[sw.i].expires_at) >= AUTO_DELETE_AFTER_DAYS

\* the iteration at hand queues its Subscription for deletion
QueuesForDeletion ==
    /\ sw'.pc = "suspend"
    /\ sw'.i = sw.i + 1
    /\ Len(sw'.panelsToDelete) = Len(sw.panelsToDelete) + 1
    /\ sw'.panelsToDelete[Len(sw'.panelsToDelete)].index = sw.i
    /\ sw'.panelsToDelete[Len(sw'.panelsToDelete)].serverId = sw.db[sw.i].server_id

\* the iteration at hand suspends the server and marks its Subscription
SuspendsAuto ==
    /\ sw'.db[sw.i].suspend_by = "auto"
    /\ sw'.dbChanged
    /\ sw.db[sw.i].server_id \in DOMAIN rServers'
    /\ rServers'[sw.db[sw.i].server_id].suspended

\* C31 as stated: such a Subscription is, in the one iteration of the tick,
\* both suspended with suspend_by 'auto' and queued for deletion.
C31_SuspendedAndQueued ==
    [][LongExpiredUnsuspended => (QueuesForDeletion /\ SuspendsAuto)]_vars

\* C31, amended: such a Subscription is queued for deletion in the one
\* iteration of the tick whether or not the suspend call succeeds; it is
\* suspended with suspend_by 'auto' in that iteration exactly if the call
\* succeeds, and a failed call leaves the Subscription as it was.
C31_QueuedAndSuspendedIfCallOk ==
    [][LongExpiredUnsuspended =>
         /\ QueuesForDeletion
         /\ Len(swLog') = Len(swLog) + 1
         /\ swLog'[Len(swLog')].op = "suspend"
         /\ swLog'[Len(swLog')].idx = sw.i
         /\ IF swLog'[Len(swLog')].ok
            THEN SuspendsAuto
            ELSE /\ sw'.db = sw.db
                 /\ sw'.dbChanged = sw.dbChanged
                 /\ rServers' = rServers]_vars

\* a tick has suspended a Subscription that had no suspend_by and has queued
\* it for deletion
C31_Witness ==
    /\ sw.pc = "suspend"
    /\ \E k \in DOMAIN swLog, q \in DOMAIN sw.panelsToDelete :
         /\ swLog[k].op = "suspend"
         /\ swLog[k].ok
         /\ sw.panelsToDelete[q].index = swLog[k].idx
         /\ sw.read[swLog[k].idx].suspend_by = "none"
         /\ sw.db[swLog[k].idx].suspend_by = "auto"


\* the tick at hand is at its write, and it does write
SweeperWrites == sw.pc = "delete" /\ sw.queue = <<>> /\ sw.dbChanged /\ sw'.pc = "done"

\* the record that list holds for the Subscription id
HasRecord(list, id) == \E j \in DOMAIN list : list[j].id = id
RecordOf(list, id) == list[CHOOSE j \in DOMAIN list : list[j].id = id]

\* C32: an add-time whose write completed after the tick read the document is
\* not undone by the tick's write: the persisted expires_at is still the
\* extended one and suspend_by is not 'auto'.
C32_ExtensionSurvivesSweeperWrite ==
    [][SweeperWrites =>
         \A i \in DOMAIN store :
            (/\ HasRecord(sw.read, store[i].id)
             /\ store[i].expires_at > RecordOf(sw.read, store[i].id).expires_at)
            => /\ HasRecord(store', store[i].id)
               /\ RecordOf(store', store[i].id).expires_at = store[i].expires_at
               /\ RecordOf(store', store[i].id).suspend_by # "auto"]_vars

\* C33: the delete pass leaves alone the server and the record of a
\* Subscription whose persisted expiry, when the delete call is due, is not
\* AUTO_DELETE_AFTER_DAYS days in the past.
C33_NoDeleteBeforeGrace ==
    [][(/\ sw.pc = "delete"
        /\ sw.queue # <<>>
        /\ sw' # sw
        /\ IndexOfServer(store, sw.queue[1].serverId) # 0
        /\ ~DeleteDue(store[IndexOfServer(store, sw.queue[1].serverId)], now))
       => /\ DOMAIN rServers' = DOMAIN rServers
          /\ sw'.db = sw.db]_vars

\* C34: a Subscription persisted with suspend_by 'admin' is still persisted
\* so after any step of a sweeper tick, and the tick does not delete its
\* server.
C34_AdminSuspendSurvivesTick ==
    [][sw' # sw =>
         \A i \in DOMAIN store :
            store[i].suspend_by = "admin"
            => /\ HasRecord(store', store[i].id)
               /\ RecordOf(store', store[i].id).suspend_by = "admin"
               /\ (store[i].server_id \in DOMAIN rServers
                     => store[i].server_id \in DOMAIN rServers')]_vars


\* C35: a failed read of the persisted document loses no persisted data. Among
\* the admin requests none removes a Subscription, so every Subscription of
\* the persisted document is still in the document after every step, whatever
\* reads have failed
C35_FailedReadLosesNothing ==
    [][\A i \in DOMAIN store : HasRecord(store', store[i].id)]_vars

(***************************************************************************)
(* Claims about the polls of one order, under SpecPolls, SpecRenewSeq and  *)
(* SpecProv.                                                               *)
(***************************************************************************)
\* the expiries of the Subscriptions before any renewal (InitRenew)
InitialExpiries == {0, 2}

\* C36: however the check-payment and manual-check requests of one renewal
\* order interleave, the expires_at of the customer's Subscription is the one
\* it had or that one extended once by the order's days
C36_ExtendedOnce ==
    \A o \in Orders, i \in DOMAIN store :
        store[i].username = OrderOf(panelsStorage, OrderKey(o)).username
        => \E e \in InitialExpiries :
              store[i].expires_at
                  \in {e, NewExpire(e, now, OrderOf(panelsStorage, OrderKey(o)).days)}

\* C37: when a check-payment request has renewed a Subscription and its own
\* write of the persisted list has gone through, the record holds the days it
\* had before the renewal plus the order's days (the total_days the renewal
\* returned) and the new_expiry the renewal returned
C37_DaysAddedOnce ==
    [][ \A p \in Procs :
          /\ procs[p].pc = "save" /\ procs[p].kind = "check"
          /\ procs[p].type = "renewal"
          /\ procs'[p].pc = "idle"
          /\ store' = procs[p].db
          /\ IndexOfServer(store', procs[p].server_id) # 0
          => LET server == store'[IndexOfServer(store', procs[p].server_id)]
             IN  /\ server.days = procs[p].pd[1].total_days
                 /\ server.expires_at = procs[p].pd[1].new_expiry ]_vars

\* C38: the request that completes a 'new' order with its panel_data goes on
\* to persist the Subscription: it does not end at the step that completes the
\* order, and when its write of the persisted list has gone through the list
\* holds a record with the server_id, the days and the expires_at of the panel
C38_CompletedOrderPersisted ==
    [][ \A p \in Procs :
          /\ (/\ procs[p].pc = "createServer"
              /\ procs[p].kind \in {"check", "manual", "force"}
              /\ HasOrder(panelsStorage', procs[p].order)
              /\ OrderOf(panelsStorage', procs[p].order).panel_data # <<>>
              /\ panelsStorage' # panelsStorage)
             => procs'[p].pc # "idle"
          /\ (/\ procs[p].pc = "save" /\ procs[p].kind = "check"
              /\ procs[p].type = "new"
              /\ procs'[p].pc = "idle"
              /\ store' = procs[p].db)
             => \E i \in DOMAIN store' :
                    /\ store'[i].server_id = procs[p].pd[1].server_id
                    /\ store'[i].days = procs[p].days
                    /\ store'[i].expires_at = procs[p].pd[1].expires_at ]_vars

(***************************************************************************)
(* Claims about the tier of a purchase, under SpecTier.                    *)
(***************************************************************************)
\* C39: the server of every order provisioned after its payment has the
\* memory of the tier whose price was charged: the product_id that goes with
\* the ram of the panel is the product_id of the order
C39_ProvisionedTierIsChargedTier ==
    \A j \in DOMAIN panelsStorage :
        /\ panelsStorage[j].type = "new"
        /\ panelsStorage[j].panel_data # <<>>
        => ProductIdOfRam(panelsStorage[j].panel_data[1].ram)
               = panelsStorage[j].product_id

(***************************************************************************)
(* Claims about the sweeper in the long run, under SpecFairSweep.          *)
(***************************************************************************)
\* the persisted list holds a Subscription of server sid that is not
\* admin-locked and is past its expiry
ExpiredUnlocked(sid) ==
    /\ IndexOfServer(store, sid) # 0
    /\ store[IndexOfServer(store, sid)].suspend_by # "admin"
    /\ store[IndexOfServer(store, sid)].expires_at < now

\* ... by AUTO_DELETE_AFTER_DAYS days or more
LongExpiredUnlocked(sid) ==
    /\ ExpiredUnlocked(sid)
    /\ DeleteDue(store[IndexOfServer(store, sid)], now)

\* the server is suspended and the persisted record says 'auto'
SuspendedAuto(sid) ==
    /\ sid \in DOMAIN rServers
    /\ rServers[sid].suspended
    /\ IndexOfServer(store, sid) # 0
    /\ store[IndexOfServer(store, sid)].suspend_by = "auto"

\* neither the persisted list nor the control-plane has the server
Deprovisioned(sid) ==
    /\ IndexOfServer(store, sid) = 0
    /\ sid \notin DOMAIN rServers

\* C40: with ticks that keep coming and calls and writes that succeed at some
\* point, a Subscription that is past its expiry and not admin-locked gets
\* suspended with suspend_by 'auto' persisted (or, when it is past the delete
\* threshold, removed), and one that is AUTO_DELETE_AFTER_DAYS days or more
\* past its expiry gets removed from the persisted list together with its
\* server
C40_EventuallySuspendedAndDeleted ==
    \A sid \in 1..MaxSubs :
        /\ (ExpiredUnlocked(sid) /\ ~LongExpiredUnlocked(sid)) ~> SuspendedAuto(sid)
        /\ LongExpiredUnlocked(sid) ~> Deprovisioned(sid)

====
